---- MODULE Spec2Model ----
(***************************************************************************)
(* Referral & membership-gated ledger of src/bot.py.                       *)
(*                                                                         *)
(* The bot is an asyncio program: every handler (start_command,           *)
(* verify_join_callback) is a coroutine, and a coroutine runs without      *)
(* interruption between two awaits.  Each action below is one such         *)
(* segment of one handler.  A block `async with data_manager._async_lock()`*)
(* is one action: no other lock-protected block can run inside it, and the *)
(* only await inside such a block is a Storage.save_* call that changes no *)
(* in-memory table.  Pending referrals live only in storage (MongoDB or a  *)
(* JSON file) and are read and written from worker threads.                *)
(*                                                                         *)
(* main() runs the bot to "handle updates concurrently": in Spec two       *)
(* handlers overlap at their awaits.  SpecSequential and SpecDays are the  *)
(* runs in which an update is handled to its end before the next begins.   *)
(***************************************************************************)
EXTENDS Integers, Sequences, FiniteSets, TLC

\* ----------------------------------------------------------------- bounds
\* Number of updates handled in one run.
MaxInvocations == 3
\* The last day of a run.
MaxDay == 8
\* The largest number of configured channels the verifier is asked about.
MaxChannels == 3
\* The number of handlers that ask for the lock in a run of SpecLock.
MaxHandlers == 11
\* The number of calls of add_transaction in a run of SpecLedger.
MaxAppends == 52
\* The number of referrals the withdrawing user was rewarded for before a run
\* of SpecWithdraw.
EarlierReferrals == 12

\* ------------------------------------------------------ program constants
WelcomeBonus == 1
ReferralBonus == 1
MaxTransactions == 50
TTLDays == 7
MinWithdrawal == 10
PoolSize == 10

\* ----------------------------------------------------------------- floats
\* Amounts and balances are Python floats.  The model has the whole numbers
\* and two of the special values float() accepts: not-a-number and infinity.
NaN == -1000000
Inf == 1000000

\* a < b on floats: false when either side is not a number.
FLess(a, b) == a # NaN /\ b # NaN /\ a < b

\* a >= b on floats: false when either side is not a number.
FGreaterEq(a, b) == a # NaN /\ b # NaN /\ a >= b

\* a + b, a - b and -a on floats: not a number as soon as an operand is.
FAdd(a, b) == IF a = NaN \/ b = NaN THEN NaN ELSE a + b

FSub(a, b) == IF a = NaN \/ b = NaN THEN NaN ELSE a - b

FNeg(a) == IF a = NaN THEN NaN ELSE 0 - a

\* The first word of /withdraw as typed, and float() of it: a value, or
\* ValueError.
AmountWords == {"5", "10", "12", "nan", "inf", "abc"}

ParseFloat(w) ==
    CASE w = "5" -> [ok |-> TRUE, value |-> 5]
      [] w = "10" -> [ok |-> TRUE, value |-> 10]
      [] w = "12" -> [ok |-> TRUE, value |-> 12]
      [] w = "nan" -> [ok |-> TRUE, value |-> NaN]
      [] w = "inf" -> [ok |-> TRUE, value |-> Inf]
      [] OTHER -> [ok |-> FALSE, value |-> 0]

\* The user ids; 1 and 2 are known to the bot at startup.
UserIds == {1, 2, 3}
\* The users who send updates in a run.
Senders == {3}
\* The handler coroutines that can be in flight at the same time.
TaskIds == {1, 2}
\* A code no user id produced: it resolves to nobody.
UnknownCode == <<"REF", 9>>

\* ------------------------------------------------- channels from the env

\* Text is a sequence of characters.  s.strip(): without the blanks at its
\* two ends.
RECURSIVE LStrip(_)
LStrip(s) == IF s # <<>> /\ Head(s) = " " THEN LStrip(Tail(s)) ELSE s

RECURSIVE RStrip(_)
RStrip(s) ==
    IF s # <<>> /\ s[Len(s)] = " " THEN RStrip(SubSeq(s, 1, Len(s) - 1)) ELSE s

Strip(s) == RStrip(LStrip(s))

\* s.startswith(p)
StartsWith(s, p) == Len(s) >= Len(p) /\ SubSeq(s, 1, Len(p)) = p

\* s.isdigit(): not empty and digits only.
IsDigit(s) ==
    /\ s # <<>>
    /\ \A i \in 1..Len(s) : s[i] \in {"0", "1", "2", "3", "4", "5", "6", "7", "8", "9"}

\* s.lstrip('@')
RECURSIVE LStripAt(_)
LStripAt(s) == IF s # <<>> /\ Head(s) = "@" THEN LStripAt(Tail(s)) ELSE s

\* str(n) as text.
RECURSIVE DigitChars(_)
DigitChars(n) ==
    LET d == <<"0", "1", "2", "3", "4", "5", "6", "7", "8", "9">>[(n % 10) + 1]
    IN IF n < 10 THEN <<d>> ELSE Append(DigitChars(n \div 10), d)

\* INITIAL_CHANNELS: the items of the variable, stripped, the empty ones
\* dropped.  The split at the commas is not modelled: `items` are the pieces.
RECURSIVE InitialChannels(_)
InitialChannels(items) ==
    IF items = <<>> THEN <<>>
    ELSE IF Strip(Head(items)) # <<>>
         THEN <<Strip(Head(items))>> \o InitialChannels(Tail(items))
         ELSE InitialChannels(Tail(items))

\* The chat_id_str add_channel_from_env makes of a stripped id; ok is false
\* for a format it refuses.
FormatChatId(clean_id) ==
    IF StartsWith(clean_id, <<"@">>) \/ StartsWith(clean_id, <<"-">>)
    THEN [ok |-> TRUE, chat_id_str |-> clean_id]
    ELSE IF IsDigit(clean_id) /\ Len(clean_id) > 9
    THEN [ok |-> TRUE, chat_id_str |-> <<"-", "1", "0", "0">> \o clean_id]
    ELSE [ok |-> FALSE, chat_id_str |-> <<>>]

\* add_channel_from_env that appends without looking for the chat_id.
AddChannelFromEnvNoDuplicateTest(chs, chat_id) ==
    LET clean_id == Strip(chat_id)
        fmt == FormatChatId(clean_id)
    IN IF clean_id = <<>> \/ ~fmt.ok THEN chs
       ELSE Append(chs, [chat_id |-> fmt.chat_id_str,
                         name |-> IF StartsWith(fmt.chat_id_str, <<"@">>)
                                  THEN LStripAt(fmt.chat_id_str)
                                  ELSE <<"Channel ">> \o DigitChars(Len(chs) + 1)])

\* DataManager.add_channel_from_env: the list after the call.  The record's
\* added_at (the time of the call) is left out.
AddChannelFromEnv(chs, chat_id) ==
    LET clean_id == Strip(chat_id)
        fmt == FormatChatId(clean_id)
    IN IF clean_id = <<>> \/ ~fmt.ok THEN chs
       ELSE IF \E i \in 1..Len(chs) : chs[i].chat_id = fmt.chat_id_str THEN chs
       ELSE Append(chs, [chat_id |-> fmt.chat_id_str,
                         name |-> IF StartsWith(fmt.chat_id_str, <<"@">>)
                                  THEN LStripAt(fmt.chat_id_str)
                                  ELSE <<"Channel ">> \o DigitChars(Len(chs) + 1)])

\* DataManager.init_channels_from_env: add_channel_from_env for every item,
\* in order, starting from the empty list.
RECURSIVE AddAll(_, _)
AddAll(chs, ids) ==
    IF ids = <<>> THEN chs
    ELSE AddAll(AddChannelFromEnv(chs, Head(ids)), Tail(ids))

InitChannelsFromEnv(items) == AddAll(<<>>, InitialChannels(items))

\* The items an INITIAL_CHANNELS may hold: a username, the same with blanks
\* around it, a bare channel number, the same channel with its -100 prefix,
\* a word that is no chat id, and a blank.
RawIds ==
    { <<"@", "a">>,
      <<" ", "@", "a", " ">>,
      <<"1", "2", "3", "4", "5", "6", "7", "8", "9", "0">>,
      <<"-", "1", "0", "0", "1", "2", "3", "4", "5", "6", "7", "8", "9", "0">>,
      <<"a", "b", "c">>,
      <<" ">> }

\* Up to MaxChannels items.
EnvLists == UNION {[1..k -> RawIds] : k \in 0..MaxChannels}

\* The channels built from INITIAL_CHANNELS, in configuration order: two
\* usernames.
Channels == InitChannelsFromEnv(<< <<"@", "a">>, <<"@", "b">> >>)

VARIABLES
    users,      \* data_manager.users: user id -> user record (a Python dict)
    referrals,  \* data_manager.referrals: referred id -> referrer id
    pending,    \* the pending_referrals collection / pending_referrals_backup.json
    backend,    \* "mongo" when init_database() connected, "file" otherwise
    faulty,     \* TRUE when storage calls may raise (their errors are swallowed)
    now,        \* the day
    tasks,      \* the handler coroutines in flight: their position and locals
    started,    \* number of updates handled so far
    outbox,     \* what the last step sent to Telegram: <<user id, messages>>
    verifier,   \* the last call of check_channel_membership made on its own
    pool,       \* data_manager._lock and the jobs of the thread pool `executor`
    channels    \* data_manager.channels: the configured channels, in order

vars == <<users, referrals, pending, backend, faulty, now, tasks, started, outbox,
          verifier, pool, channels>>

\* ------------------------------------------------------------ user table

\* str(n) of a non-negative integer: its decimal digits.
RECURSIVE Str(_)
Str(n) == IF n < 10 THEN <<n>> ELSE Append(Str(n \div 10), n % 10)

\* A referral code made of the last digit of the id only.
ReferralCodeLastDigit(uid) == <<"REF", uid % 10>>

\* f"REF{user_id}": the prefix, then the digits of the id.
ReferralCodeOf(uid) == <<"REF">> \o Str(uid)

\* The record UserManager.get_user creates for an unknown id.
NewUser(uid) ==
    [ user_id |-> uid,
      balance |-> 0,
      referral_code |-> ReferralCodeOf(uid),
      referral_count |-> 0,
      total_earned |-> 0,
      total_withdrawn |-> 0,
      transactions |-> <<>>,
      has_joined_channels |-> FALSE,
      welcome_bonus_received |-> FALSE ]

\* get_user storing a fresh record whether or not the id is known.
GetUserAlwaysCreates(us, uid) ==
    [u \in DOMAIN us \cup {uid} |-> IF u = uid THEN NewUser(uid) ELSE us[u]]

\* UserManager.get_user, the table after the call: an unknown id is created,
\* a known one is left as it is (the caller gets the live record).
GetUser(us, uid) ==
    IF uid \in DOMAIN us THEN us ELSE us @@ (uid :> NewUser(uid))

\* dict.update for the fields of `updates` (a record), on a known user only.
UpdateUser(us, uid, updates) ==
    IF uid \in DOMAIN us
    THEN [us EXCEPT ![uid] =
            [f \in DOMAIN us[uid] |->
                IF f \in DOMAIN updates THEN updates[f] ELSE us[uid][f]]]
    ELSE us

\* The last n elements of a sequence (s[-n:]).
LastN(s, n) ==
    IF Len(s) <= n THEN s ELSE SubSeq(s, Len(s) - n + 1, Len(s))

\* add_transaction that never drops an old transaction.
AddTransactionUnbounded(us, uid, amount, tx_type, description) ==
    LET us1 == GetUser(us, uid)
        tx == [ id |-> Len(us1[uid].transactions) + 1,
                amount |-> amount,
                type |-> tx_type,
                description |-> description ]
    IN [us1 EXCEPT ![uid].transactions = Append(us1[uid].transactions, tx)]

\* UserManager.add_transaction: get_user, then the append on the live record
\* (id = current length + 1), then the cut to the last 50.
AddTransaction(us, uid, amount, tx_type, description) ==
    LET us1 == GetUser(us, uid)
        tx == [ id |-> Len(us1[uid].transactions) + 1,
                amount |-> amount,
                type |-> tx_type,
                description |-> description ]
    IN [us1 EXCEPT ![uid].transactions =
            LastN(Append(us1[uid].transactions, tx), MaxTransactions)]

\* UserManager.is_referred
IsReferred(refs, uid) == uid \in DOMAIN refs

\* The loop of start_command over data_manager.users: the user whose
\* referral_code equals the presented code, 0 (None) when there is none.
LookupByReferralCode(us, code) ==
    LET hits == {u \in DOMAIN us : us[u].referral_code = code}
    IN IF hits = {} THEN 0 ELSE CHOOSE u \in hits : \A v \in hits : u <= v

\* add_referral without its already-referred test: every call records.
RecordReferralUnchecked(refs, referrer_id, referred_id) ==
    [is_new |-> TRUE,
     referrals |-> [x \in DOMAIN refs \cup {referred_id} |->
                      IF x = referred_id THEN referrer_id ELSE refs[x]]]

\* add_referral storing the record before its already-referred test.
RecordReferralOverwriting(refs, referrer_id, referred_id) ==
    IF referrer_id = referred_id
    THEN [is_new |-> FALSE, referrals |-> refs]
    ELSE [is_new |-> referred_id \notin DOMAIN refs,
          referrals |-> [x \in DOMAIN refs \cup {referred_id} |->
                           IF x = referred_id THEN referrer_id ELSE refs[x]]]

\* UserManager.add_referral up to the end of its locked block: whether the
\* referral is new, and the referrals table after it.
RecordReferral(refs, referrer_id, referred_id) ==
    IF referrer_id = referred_id \/ referred_id \in DOMAIN refs
    THEN [is_new |-> FALSE, referrals |-> refs]
    ELSE [is_new |-> TRUE, referrals |-> refs @@ (referred_id :> referrer_id)]

\* ------------------------------------------------------ membership verifier

\* What bot.get_chat_member can do for one channel: answer with a status,
\* not answer within 10 s, or raise.
\* member.status is a string; "unknown" stands for any value other than the
\* six the Bot API documents.
MemberStatuses ==
    {"creator", "administrator", "member", "restricted", "left", "kicked", "unknown"}
ProbeOutcomes == MemberStatuses \cup {"timeout", "error"}

\* check_single_channel answering True when the probe times out or raises.
CheckSingleChannelFailOpen(outcome) ==
    outcome \notin {"left", "kicked"}

\* check_single_channel: the value the coroutine returns for one probe.
CheckSingleChannel(outcome) ==
    IF outcome \in {"timeout", "error"} THEN FALSE
    ELSE outcome \notin {"left", "kicked"}

\* The loop of check_channel_membership over the gathered results: the
\* channels whose result is an exception or false, in configuration order.
RECURSIVE NotJoined(_, _, _)
NotJoined(chs, results, i) ==
    IF i > Len(chs) THEN <<>>
    ELSE IF results[i] # TRUE
         THEN <<chs[i]>> \o NotJoined(chs, results, i + 1)
         ELSE NotJoined(chs, results, i + 1)

\* check_channel_membership satisfied as soon as one probe is true.
CheckChannelMembershipAny(chs, outcomes) ==
    IF Len(chs) = 0
    THEN [has_joined |-> TRUE, not_joined |-> <<>>]
    ELSE LET results == [i \in 1..Len(chs) |-> CheckSingleChannel(outcomes[i])]
             not_joined == NotJoined(chs, results, 1)
         IN [has_joined |-> Len(not_joined) < Len(chs), not_joined |-> not_joined]

\* check_channel_membership for the configured channels `chs`, given the
\* outcome of each probe.
CheckChannelMembership(chs, outcomes) ==
    IF Len(chs) = 0
    THEN [has_joined |-> TRUE, not_joined |-> <<>>]
    ELSE LET results == [i \in 1..Len(chs) |-> CheckSingleChannel(outcomes[i])]
             not_joined == NotJoined(chs, results, 1)
         IN [has_joined |-> Len(not_joined) = 0, not_joined |-> not_joined]

\* ---------------------------------------------------------------- storage

\* Storage._get_pending_referrer_sync: the stored referrer id, 0 (None) when
\* there is no record.  Neither backend looks at the record's age.
GetPendingReferrer(p, referred_id) ==
    IF referred_id \in DOMAIN p THEN p[referred_id].referrer_id ELSE 0

\* Storage._save_pending_referral_sync on the table `p` it read: an upsert.
\* MongoDB stores created_at; the JSON file stores the referrer id alone, and
\* the model keeps created_at there only to tell how old a record is.
SavePendingReferral(p, referrer_id, referred_id, day) ==
    LET rec == [referrer_id |-> referrer_id, created_at |-> day]
    IN [x \in DOMAIN p \cup {referred_id} |-> IF x = referred_id THEN rec ELSE p[x]]

\* Storage._remove_pending_referral_sync on the table `p` it read.
RemovePendingReferral(p, referred_id) ==
    [x \in DOMAIN p \ {referred_id} |-> p[x]]

\* The TTL index of init_database (expireAfterSeconds = 604800): the records
\* MongoDB still holds on `day`.
MongoExpire(p, day) ==
    LET live == {x \in DOMAIN p : day - p[x].created_at < TTLDays}
    IN [x \in live |-> p[x]]

\* A storage call either works or, when the backend is failing, raises; every
\* Storage method catches the exception, logs it and carries on.
StorageOutcomes == IF faulty THEN {"ok", "error"} ELSE {"ok"}

\* ------------------------------------------------------------------ tasks

IdleTask ==
    [ pc |-> "idle", kind |-> "none", uid |-> 0, arg |-> <<>>,
      referrer_found |-> 0, pending_referrer |-> 0,
      new_balance |-> 0, new_total |-> 0, new_count |-> 0,
      amount |-> 0, total_withdrawn |-> 0,
      gate |-> "none", file_copy |-> <<>>,
      \* not locals of the code: whether the user had a completed referral,
      \* and whether the user was admitted, when this update arrived
      referred_at_begin |-> FALSE, admitted_at_begin |-> FALSE ]

\* context.args of /start: nothing, a referral code, or some other word.
StartArgs ==
    {<<>>, UnknownCode} \cup {ReferralCodeOf(n) : n \in UserIds}

\* Nothing sent.
NoOutput == <<0, {}>>

\* check_channel_membership has not been called on its own.
NoCall == [called |-> FALSE, channels |-> <<>>, outcomes |-> <<>>,
           has_joined |-> FALSE, not_joined |-> <<>>]

\* The lock is free and the thread pool has nothing to do.
NoPool == [lock |-> "free", holder |-> "none", queue |-> <<>>, blocked |-> 0,
           arrived |-> 0, done |-> 0]

\* The outcomes of one membership check that the handlers can tell apart:
\* has_joined, and whether not_joined is empty.
GateResultsFor(chs) ==
    { LET r == CheckChannelMembership(chs, o)
      IN <<r.has_joined, Len(r.not_joined) = 0>> :
        o \in [1..Len(chs) -> ProbeOutcomes] }

\* The same for the default list, which does not depend on the state.
DefaultGateResults == GateResultsFor(Channels)

\* The outcomes for the configured channels.
GateResults ==
    IF channels = Channels THEN DefaultGateResults ELSE GateResultsFor(channels)

\* ------------------------------------------------------------------- init

\* A user who joined every channel before and got the welcome bonus.
AdmittedUser(uid) ==
    [NewUser(uid) EXCEPT
        !.balance = WelcomeBonus,
        !.total_earned = WelcomeBonus,
        !.has_joined_channels = TRUE,
        !.welcome_bonus_received = TRUE,
        !.transactions = <<[id |-> 1, amount |-> WelcomeBonus, type |-> "credit",
                            description |-> <<"welcome", 0>>]>>]

\* DataManager.__init__: the tables as loaded from storage.  User 1 was
\* admitted in an earlier run, user 2 has started the bot but not joined,
\* user 3 is unknown.
InitCommon ==
    /\ users = (1 :> AdmittedUser(1)) @@ (2 :> NewUser(2))
    /\ referrals = <<>>
    /\ pending = <<>>
    /\ backend \in {"mongo", "file"}
    /\ now = 0
    /\ tasks = [t \in TaskIds |-> IdleTask]
    /\ started = 0
    /\ outbox = NoOutput
    /\ pool = NoPool
    /\ channels = Channels

Init == InitCommon /\ faulty = FALSE /\ verifier = NoCall

InitFaulty == InitCommon /\ faulty = TRUE /\ verifier = NoCall

\* The verifier about to be asked about the first k configured channels, each
\* probe having one of its possible outcomes.
InitVerifier ==
    /\ InitCommon
    /\ faulty = FALSE
    /\ \E k \in 0..MaxChannels :
         \E outcomes \in [1..k -> ProbeOutcomes] :
            verifier = [NoCall EXCEPT !.channels = [i \in 1..k |-> i],
                                      !.outcomes = outcomes]

\* ---------------------------------------------------------------- updates

\* The user has a record with has_joined_channels and welcome_bonus_received
\* both set.
IsAdmitted(us, uid) ==
    /\ uid \in DOMAIN us
    /\ us[uid].has_joined_channels
    /\ us[uid].welcome_bonus_received

\* A new update can be handled by coroutine t: the lowest free one.
CanBegin(t) ==
    /\ started < MaxInvocations
    /\ tasks[t].pc = "idle"
    /\ \A s \in TaskIds : s < t => tasks[s].pc # "idle"

\* A /start update arrives: start_command begins for user `uid`.
BeginStart(t) ==
    /\ CanBegin(t)
    /\ \E uid \in Senders, arg \in StartArgs :
          tasks' = [tasks EXCEPT ![t] =
                      [IdleTask EXCEPT !.pc = "s_get_user", !.kind = "start",
                                       !.uid = uid, !.arg = arg,
                                       !.referred_at_begin = IsReferred(referrals, uid),
                                       !.admitted_at_begin = IsAdmitted(users, uid)]]
    /\ started' = started + 1
    /\ outbox' = NoOutput
    /\ UNCHANGED <<users, referrals, pending, backend, faulty, now, verifier, pool, channels>>

\* The "Verify Join" button is pressed: verify_join_callback begins.
BeginVerify(t) ==
    /\ CanBegin(t)
    /\ \E uid \in Senders :
          tasks' = [tasks EXCEPT ![t] =
                      [IdleTask EXCEPT !.pc = "check", !.kind = "verify", !.uid = uid,
                                       !.referred_at_begin = IsReferred(referrals, uid),
                                       !.admitted_at_begin = IsAdmitted(users, uid)]]
    /\ started' = started + 1
    /\ outbox' = NoOutput
    /\ UNCHANGED <<users, referrals, pending, backend, faulty, now, verifier, pool, channels>>

\* ---------------------------------------------------- start_command, head

\* user_data = await UserManager.get_user(user.id)
StartGetUser(t) ==
    /\ tasks[t].pc = "s_get_user"
    /\ users' = GetUser(users, tasks[t].uid)
    /\ tasks' = [tasks EXCEPT ![t].pc = "s_args"]
    /\ outbox' = NoOutput
    /\ UNCHANGED <<referrals, pending, backend, faulty, now, started, verifier, pool, channels>>

\* start_command without the is_referred test on the argument.
StartArgsCheckNoReferredTest(t) ==
    LET tk == tasks[t]
        has_code == Len(tk.arg) > 0 /\ tk.arg[1] = "REF"
    IN
    /\ tk.pc = "s_args"
    /\ tasks' = [tasks EXCEPT ![t].pc = IF has_code THEN "s_lookup" ELSE "check"]
    /\ outbox' = NoOutput
    /\ UNCHANGED <<users, referrals, pending, backend, faulty, now, started, verifier, pool, channels>>

\* if args and args[0].startswith('REF'): ... if UserManager.is_referred(user.id)
StartArgsCheck(t) ==
    LET tk == tasks[t]
        has_code == Len(tk.arg) > 0 /\ tk.arg[1] = "REF"
        referred == has_code /\ IsReferred(referrals, tk.uid)
    IN
    /\ tk.pc = "s_args"
    /\ tasks' = [tasks EXCEPT ![t].pc =
                    IF has_code /\ ~referred THEN "s_lookup" ELSE "check"]
    /\ outbox' = IF referred THEN <<tk.uid, {"already_referred"}>> ELSE NoOutput
    /\ UNCHANGED <<users, referrals, pending, backend, faulty, now, started, verifier, pool, channels>>

\* start_command accepting the code of the user who sends it.
StartLookupNoSelfTest(t) ==
    LET tk == tasks[t]
        found == LookupByReferralCode(users, tk.arg)
    IN
    /\ tk.pc = "s_lookup"
    /\ tasks' = [tasks EXCEPT ![t] =
          IF found # 0
          THEN [tk EXCEPT !.pc = "s_pending_get", !.referrer_found = found]
          ELSE [tk EXCEPT !.pc = "check"]]
    /\ outbox' = NoOutput
    /\ UNCHANGED <<users, referrals, pending, backend, faulty, now, started, verifier, pool, channels>>

\* start_command treating a code that nobody owns as a failure of the start.
StartLookupUnknownFatal(t) ==
    LET tk == tasks[t]
        found == LookupByReferralCode(users, tk.arg)
    IN
    /\ tk.pc = "s_lookup"
    /\ tasks' = [tasks EXCEPT ![t] =
          IF found = 0 THEN IdleTask
          ELSE IF found # tk.uid
          THEN [tk EXCEPT !.pc = "s_pending_get", !.referrer_found = found]
          ELSE [tk EXCEPT !.pc = "check"]]
    /\ outbox' = IF found = 0 THEN <<tk.uid, {"error"}>>
                 ELSE IF found = tk.uid THEN <<tk.uid, {"own_link_rejected"}>>
                 ELSE NoOutput
    /\ UNCHANGED <<users, referrals, pending, backend, faulty, now, started, verifier, pool, channels>>

\* The locked scan for the code's owner and the branch on what it found.
StartLookup(t) ==
    LET tk == tasks[t]
        found == LookupByReferralCode(users, tk.arg)
    IN
    /\ tk.pc = "s_lookup"
    /\ tasks' = [tasks EXCEPT ![t] =
          IF found # 0 /\ found # tk.uid
          THEN [tk EXCEPT !.pc = "s_pending_get", !.referrer_found = found]
          ELSE [tk EXCEPT !.pc = "check"]]
    /\ outbox' = IF ~(found # 0 /\ found # tk.uid) /\ found = tk.uid
                 THEN <<tk.uid, {"own_link_rejected"}>>
                 ELSE NoOutput
    /\ UNCHANGED <<users, referrals, pending, backend, faulty, now, started, verifier, pool, channels>>

\* existing_pending = await UserManager.get_pending_referrer(user.id)
StartPendingGet(t) ==
    LET tk == tasks[t] IN
    /\ tk.pc = "s_pending_get"
    /\ \E o \in StorageOutcomes :
          LET existing == IF o = "ok" THEN GetPendingReferrer(pending, tk.uid) ELSE 0
          IN tasks' = [tasks EXCEPT ![t] =
                IF existing # 0
                THEN [tk EXCEPT !.pc = "check", !.referrer_found = 0]
                ELSE [tk EXCEPT !.pc = IF backend = "mongo" THEN "s_pending_save"
                                       ELSE "s_pending_load"]]
    /\ outbox' = NoOutput
    /\ UNCHANGED <<users, referrals, pending, backend, faulty, now, started, verifier, pool, channels>>

\* add_pending_referral on MongoDB: one update_one(..., upsert=True).
StartPendingSave(t) ==
    LET tk == tasks[t] IN
    /\ tk.pc = "s_pending_save"
    /\ \E o \in StorageOutcomes :
          pending' = IF o = "ok"
                     THEN SavePendingReferral(pending, tk.referrer_found, tk.uid, now)
                     ELSE pending
    /\ tasks' = [tasks EXCEPT ![t] = [tk EXCEPT !.pc = "check", !.referrer_found = 0]]
    /\ outbox' = <<tk.uid, {"referral_accepted"}>>
    /\ UNCHANGED <<users, referrals, backend, faulty, now, started, verifier, pool, channels>>

\* add_pending_referral on the file backend, first half: json.load of the file.
StartPendingLoad(t) ==
    LET tk == tasks[t] IN
    /\ tk.pc = "s_pending_load"
    /\ tasks' = [tasks EXCEPT ![t] =
          [tk EXCEPT !.pc = "s_pending_dump", !.file_copy = pending]]
    /\ outbox' = NoOutput
    /\ UNCHANGED <<users, referrals, pending, backend, faulty, now, started, verifier, pool, channels>>

\* add_pending_referral on the file backend, second half: json.dump of the
\* table that was read, with this record set.
StartPendingDump(t) ==
    LET tk == tasks[t] IN
    /\ tk.pc = "s_pending_dump"
    /\ \E o \in StorageOutcomes :
          pending' = IF o = "ok"
                     THEN SavePendingReferral(tk.file_copy, tk.referrer_found, tk.uid, now)
                     ELSE pending
    /\ tasks' = [tasks EXCEPT ![t] =
          [tk EXCEPT !.pc = "check", !.referrer_found = 0, !.file_copy = <<>>]]
    /\ outbox' = <<tk.uid, {"referral_accepted"}>>
    /\ UNCHANGED <<users, referrals, backend, faulty, now, started, verifier, pool, channels>>

\* ------------------------------------------------------- membership check

\* What check_channel_membership answered, as the handler's gate.
GateOf(g) == IF g[1] THEN "satisfied" ELSE "unsatisfied"

\* The test with start_command never holding the user at the gate.
UnsatisfiedOnVerifyOnly(kind, g) ==
    kind = "verify" /\ ~g[1]

\* The test on the answer <<has_joined, not_joined is empty>>:
\* `if not has_joined and not_joined` in start_command, the else branch of
\* `if has_joined` in verify_join_callback.
Unsatisfied(kind, g) ==
    IF kind = "start" THEN ~g[1] /\ ~g[2] ELSE ~g[1]

\* asyncio.wait_for(check_channel_membership(...), timeout) in start_command
\* (30 s) and verify_join_callback (20 s), and the branch on its result; an
\* exception out of it ends the handler in its outer except clause.
\* show_join_buttons shows the join buttons when it gets an invite link and
\* otherwise an error followed by the main menu; start_command shows the main
\* menu after its timeout message.  show_main_menu calls get_user, which
\* finds the record start_command created; after verify_join_callback it is
\* the step ShowMainMenu.
MembershipCheck(t) ==
    LET tk == tasks[t] IN
    /\ tk.pc = "check"
    /\ \E outer \in {"answered", "timeout", "raised"}, g \in GateResults,
          links \in BOOLEAN :
          LET unsat == Unsatisfied(tk.kind, g)
          IN IF outer = "raised"
             THEN /\ tasks' = [tasks EXCEPT ![t] = IdleTask]
                  /\ outbox' = <<tk.uid, {"error"}>>
             ELSE IF outer = "timeout"
             THEN /\ tasks' = [tasks EXCEPT ![t] = IdleTask]
                  /\ outbox' = IF tk.kind = "start"
                               THEN <<tk.uid, {"try_again", "main_menu"}>>
                               ELSE <<tk.uid, {"try_again"}>>
             ELSE IF unsat
             THEN IF links
                  THEN /\ tasks' = [tasks EXCEPT ![t] = IdleTask]
                       /\ outbox' = <<tk.uid, {"join_buttons"}>>
                  ELSE IF tk.kind = "start"
                  THEN /\ tasks' = [tasks EXCEPT ![t] = IdleTask]
                       /\ outbox' = <<tk.uid, {"no_invite_links", "main_menu"}>>
                  ELSE /\ tasks' = [tasks EXCEPT ![t] =
                                       [tk EXCEPT !.pc = "menu", !.gate = GateOf(g)]]
                       /\ outbox' = <<tk.uid, {"no_invite_links"}>>
             ELSE /\ tasks' = [tasks EXCEPT ![t] =
                                  [tk EXCEPT !.pc = "r_joined", !.gate = GateOf(g)]]
                  /\ outbox' = NoOutput
    /\ UNCHANGED <<users, referrals, pending, backend, faulty, now, started, verifier, pool, channels>>

\* show_main_menu: user_data = await UserManager.get_user(user.id), then the menu.
ShowMainMenu(t) ==
    LET tk == tasks[t] IN
    /\ tk.pc = "menu"
    /\ users' = GetUser(users, tk.uid)
    /\ tasks' = [tasks EXCEPT ![t] = IdleTask]
    /\ outbox' = <<tk.uid, {"main_menu"}>>
    /\ UNCHANGED <<referrals, pending, backend, faulty, now, started, verifier, pool, channels>>

\* ------------------------------------------------------------ reward path
\* Lines 946-988 of start_command and 1146-1188 of verify_join_callback are
\* the same statements.

\* await UserManager.update_user(user.id, {'has_joined_channels': True})
MarkJoined(t) ==
    LET tk == tasks[t] IN
    /\ tk.pc = "r_joined"
    /\ users' = UpdateUser(users, tk.uid, [has_joined_channels |-> TRUE])
    /\ tasks' = [tasks EXCEPT ![t].pc = "w_get_user"]
    /\ outbox' = NoOutput
    /\ UNCHANGED <<referrals, pending, backend, faulty, now, started, verifier, pool, channels>>

\* give_welcome_bonus: user = await UserManager.get_user(user_id)
WelcomeGetUser(t) ==
    LET tk == tasks[t] IN
    /\ tk.pc = "w_get_user"
    /\ users' = GetUser(users, tk.uid)
    /\ tasks' = [tasks EXCEPT ![t].pc = "w_check"]
    /\ outbox' = NoOutput
    /\ UNCHANGED <<referrals, pending, backend, faulty, now, started, verifier, pool, channels>>

\* give_welcome_bonus without the test of welcome_bonus_received.
WelcomeCheckNoFlagTest(t) ==
    LET tk == tasks[t]
        user == users[tk.uid]
    IN
    /\ tk.pc = "w_check"
    /\ tasks' = [tasks EXCEPT ![t] =
          [tk EXCEPT !.pc = "w_update",
                     !.new_balance = user.balance + WelcomeBonus,
                     !.new_total = user.total_earned + WelcomeBonus]]
    /\ outbox' = NoOutput
    /\ UNCHANGED <<users, referrals, pending, backend, faulty, now, started, verifier, pool, channels>>

\* give_welcome_bonus: the flag test and the values computed for update_user.
WelcomeCheck(t) ==
    LET tk == tasks[t]
        user == users[tk.uid]
    IN
    /\ tk.pc = "w_check"
    /\ tasks' = [tasks EXCEPT ![t] =
          IF user.welcome_bonus_received
          THEN [tk EXCEPT !.pc = "p_get"]
          ELSE [tk EXCEPT !.pc = "w_update",
                          !.new_balance = FAdd(user.balance, WelcomeBonus),
                          !.new_total = user.total_earned + WelcomeBonus]]
    /\ outbox' = NoOutput
    /\ UNCHANGED <<users, referrals, pending, backend, faulty, now, started, verifier, pool, channels>>

\* give_welcome_bonus: await UserManager.update_user(user_id, {...})
WelcomeUpdate(t) ==
    LET tk == tasks[t] IN
    /\ tk.pc = "w_update"
    /\ users' = UpdateUser(users, tk.uid,
                    [balance |-> tk.new_balance,
                     welcome_bonus_received |-> TRUE,
                     total_earned |-> tk.new_total])
    /\ tasks' = [tasks EXCEPT ![t] =
          [tk EXCEPT !.pc = "w_tx", !.new_balance = 0, !.new_total = 0]]
    /\ outbox' = NoOutput
    /\ UNCHANGED <<referrals, pending, backend, faulty, now, started, verifier, pool, channels>>

\* give_welcome_bonus: await UserManager.add_transaction(user_id, 1.0, ...)
WelcomeTransaction(t) ==
    LET tk == tasks[t] IN
    /\ tk.pc = "w_tx"
    /\ users' = AddTransaction(users, tk.uid, WelcomeBonus, "credit", <<"welcome", 0>>)
    /\ tasks' = [tasks EXCEPT ![t].pc = "p_get"]
    /\ outbox' = NoOutput
    /\ UNCHANGED <<referrals, pending, backend, faulty, now, started, verifier, pool, channels>>

\* pending_referrer = await UserManager.get_pending_referrer(user.id)
PromoteGet(t) ==
    LET tk == tasks[t] IN
    /\ tk.pc = "p_get"
    /\ \E o \in StorageOutcomes :
          tasks' = [tasks EXCEPT ![t] =
              [tk EXCEPT !.pc = "p_check",
                         !.pending_referrer =
                             IF o = "ok" THEN GetPendingReferrer(pending, tk.uid) ELSE 0]]
    /\ outbox' = NoOutput
    /\ UNCHANGED <<users, referrals, pending, backend, faulty, now, started, verifier, pool, channels>>

\* if pending_referrer and not UserManager.is_referred(user.id): add_referral(...)
\* else: the "verified" reply and the main menu.
PromoteCheck(t) ==
    LET tk == tasks[t]
        promote == tk.pending_referrer # 0 /\ ~IsReferred(referrals, tk.uid)
    IN
    /\ tk.pc = "p_check"
    /\ tasks' = [tasks EXCEPT ![t] =
                    IF promote THEN [tk EXCEPT !.pc = "a_record"] ELSE IdleTask]
    /\ outbox' = IF promote THEN NoOutput ELSE <<tk.uid, {"verified", "main_menu"}>>
    /\ UNCHANGED <<users, referrals, pending, backend, faulty, now, started, verifier, pool, channels>>

\* add_referral: the self-referral test and the locked check-and-record; when
\* it returns False, the "verified" reply and the main menu.
ReferralRecord(t) ==
    LET tk == tasks[t]
        r == RecordReferral(referrals, tk.pending_referrer, tk.uid)
    IN
    /\ tk.pc = "a_record"
    /\ referrals' = r.referrals
    /\ tasks' = [tasks EXCEPT ![t] =
                    IF r.is_new THEN [tk EXCEPT !.pc = "a_calc"] ELSE IdleTask]
    /\ outbox' = IF r.is_new THEN NoOutput ELSE <<tk.uid, {"verified", "main_menu"}>>
    /\ UNCHANGED <<users, pending, backend, faulty, now, started, verifier, pool, channels>>

\* add_referral: referrer = await UserManager.get_user(referrer_id) and the
\* values computed from the record for update_user.
ReferralCalc(t) ==
    LET tk == tasks[t]
        us == GetUser(users, tk.pending_referrer)
        referrer == us[tk.pending_referrer]
    IN
    /\ tk.pc = "a_calc"
    /\ users' = us
    /\ tasks' = [tasks EXCEPT ![t] =
          [tk EXCEPT !.pc = "a_update",
                     !.new_balance = FAdd(referrer.balance, ReferralBonus),
                     !.new_count = referrer.referral_count + 1,
                     !.new_total = referrer.total_earned + ReferralBonus]]
    /\ outbox' = NoOutput
    /\ UNCHANGED <<referrals, pending, backend, faulty, now, started, verifier, pool, channels>>

\* add_referral: await UserManager.update_user(referrer_id, {...})
ReferralUpdate(t) ==
    LET tk == tasks[t] IN
    /\ tk.pc = "a_update"
    /\ users' = UpdateUser(users, tk.pending_referrer,
                    [balance |-> tk.new_balance,
                     referral_count |-> tk.new_count,
                     total_earned |-> tk.new_total])
    /\ tasks' = [tasks EXCEPT ![t] =
          [tk EXCEPT !.pc = "a_tx", !.new_balance = 0, !.new_count = 0, !.new_total = 0]]
    /\ outbox' = NoOutput
    /\ UNCHANGED <<referrals, pending, backend, faulty, now, started, verifier, pool, channels>>

\* add_referral: await UserManager.add_transaction(referrer_id, 1.0, ...)
ReferralTransaction(t) ==
    LET tk == tasks[t] IN
    /\ tk.pc = "a_tx"
    /\ users' = AddTransaction(users, tk.pending_referrer, ReferralBonus, "credit",
                               <<"referral", tk.uid>>)
    /\ tasks' = [tasks EXCEPT ![t].pc =
                    IF backend = "mongo" THEN "p_remove" ELSE "p_remove_load"]
    /\ outbox' = NoOutput
    /\ UNCHANGED <<referrals, pending, backend, faulty, now, started, verifier, pool, channels>>

\* remove_pending_referral on MongoDB: one delete_one; then the replies.
PromoteRemove(t) ==
    LET tk == tasks[t] IN
    /\ tk.pc = "p_remove"
    /\ \E o \in StorageOutcomes :
          pending' = IF o = "ok" THEN RemovePendingReferral(pending, tk.uid) ELSE pending
    /\ tasks' = [tasks EXCEPT ![t] = IdleTask]
    /\ outbox' = <<tk.uid, {"verified", "referral_credited", "main_menu"}>>
    /\ UNCHANGED <<users, referrals, backend, faulty, now, started, verifier, pool, channels>>

\* remove_pending_referral on the file backend, first half: json.load.
PromoteRemoveLoad(t) ==
    LET tk == tasks[t] IN
    /\ tk.pc = "p_remove_load"
    /\ tasks' = [tasks EXCEPT ![t] =
          [tk EXCEPT !.pc = "p_remove_dump", !.file_copy = pending]]
    /\ outbox' = NoOutput
    /\ UNCHANGED <<users, referrals, pending, backend, faulty, now, started, verifier, pool, channels>>

\* remove_pending_referral on the file backend, second half: the record is
\* deleted from the table that was read and the table is written back, when
\* the table that was read holds the record; then the replies.
PromoteRemoveDump(t) ==
    LET tk == tasks[t] IN
    /\ tk.pc = "p_remove_dump"
    /\ \E o \in StorageOutcomes :
          pending' = IF o = "ok" /\ tk.uid \in DOMAIN tk.file_copy
                     THEN RemovePendingReferral(tk.file_copy, tk.uid)
                     ELSE pending
    /\ tasks' = [tasks EXCEPT ![t] = IdleTask]
    /\ outbox' = <<tk.uid, {"verified", "referral_credited", "main_menu"}>>
    /\ UNCHANGED <<users, referrals, backend, faulty, now, started, verifier, pool, channels>>

\* ---------------------------------------------------------- specifications

Step(t) ==
    \/ BeginStart(t)
    \/ BeginVerify(t)
    \/ StartGetUser(t)
    \/ StartArgsCheck(t)
    \/ StartLookup(t)
    \/ StartPendingGet(t)
    \/ StartPendingSave(t)
    \/ StartPendingLoad(t)
    \/ StartPendingDump(t)
    \/ MembershipCheck(t)
    \/ ShowMainMenu(t)
    \/ MarkJoined(t)
    \/ WelcomeGetUser(t)
    \/ WelcomeCheck(t)
    \/ WelcomeUpdate(t)
    \/ WelcomeTransaction(t)
    \/ PromoteGet(t)
    \/ PromoteCheck(t)
    \/ ReferralRecord(t)
    \/ ReferralCalc(t)
    \/ ReferralUpdate(t)
    \/ ReferralTransaction(t)
    \/ PromoteRemove(t)
    \/ PromoteRemoveLoad(t)
    \/ PromoteRemoveDump(t)

Next == \E t \in TaskIds : Step(t)

\* Handlers running concurrently, within one day.
Spec == Init /\ [][Next]_vars

\* The same with storage calls that may fail.
SpecFaulty == InitFaulty /\ [][Next]_vars

\* A day passes between two updates (a handler runs for seconds: its waits
\* are bounded by the 30 s and 20 s timeouts).  MongoDB's TTL monitor (it runs
\* every minute) has by then deleted the records the TTL index expires; the
\* JSON file has no expiry.
Tick ==
    /\ now < MaxDay
    /\ \A t \in TaskIds : tasks[t].pc = "idle"
    /\ now' = now + 1
    /\ pending' = IF backend = "mongo" THEN MongoExpire(pending, now + 1) ELSE pending
    /\ outbox' = NoOutput
    /\ UNCHANGED <<users, referrals, backend, faulty, tasks, started, verifier, pool, channels>>

\* One handler at a time.
NextSequential == Step(1)

SpecSequential == Init /\ [][NextSequential]_vars

\* One handler at a time, with storage calls that may fail.
SpecSequentialFaulty == InitFaulty /\ [][NextSequential]_vars

\* One handler at a time, over several days.
NextDays == Step(1) \/ Tick

SpecDays == Init /\ [][NextDays]_vars

\* check_channel_membership(bot, user_id) over the channels and probe outcomes
\* drawn by InitVerifier.
VerifierCheck ==
    /\ ~verifier.called
    /\ LET r == CheckChannelMembership(verifier.channels, verifier.outcomes)
       IN verifier' = [verifier EXCEPT !.called = TRUE,
                                       !.has_joined = r.has_joined,
                                       !.not_joined = r.not_joined]
    /\ UNCHANGED <<users, referrals, pending, backend, faulty, now, tasks, started,
                   outbox, pool, channels>>

SpecVerifier == InitVerifier /\ [][VerifierCheck]_vars

\* ------------------------------------------------- one referrer, two referred

\* The users who press "Verify Join" in SpecReferrer.
Verifiers == {1, 2, 3}

\* Users 1, 2 and 3 have started the bot without joining, users 2 and 3 with
\* user 1's code: two pending referrals name the referrer 1.
InitReferrer ==
    /\ users = [u \in UserIds |-> NewUser(u)]
    /\ referrals = <<>>
    /\ pending = [x \in {2, 3} |-> [referrer_id |-> 1, created_at |-> 0]]
    /\ backend \in {"mongo", "file"}
    /\ faulty = FALSE
    /\ now = 0
    /\ tasks = [t \in TaskIds |-> IdleTask]
    /\ started = 0
    /\ outbox = NoOutput
    /\ verifier = NoCall
    /\ pool = NoPool
    /\ channels = Channels

\* "Verify Join" is pressed by one of the three users.
BeginVerifyBy(t) ==
    /\ CanBegin(t)
    /\ \E uid \in Verifiers :
          tasks' = [tasks EXCEPT ![t] =
                      [IdleTask EXCEPT !.pc = "check", !.kind = "verify", !.uid = uid,
                                       !.referred_at_begin = IsReferred(referrals, uid),
                                       !.admitted_at_begin = IsAdmitted(users, uid)]]
    /\ started' = started + 1
    /\ outbox' = NoOutput
    /\ UNCHANGED <<users, referrals, pending, backend, faulty, now, verifier, pool, channels>>

\* verify_join_callback, from the membership check on.
VerifyStep(t) ==
    \/ MembershipCheck(t)
    \/ ShowMainMenu(t)
    \/ MarkJoined(t)
    \/ WelcomeGetUser(t)
    \/ WelcomeCheck(t)
    \/ WelcomeUpdate(t)
    \/ WelcomeTransaction(t)
    \/ PromoteGet(t)
    \/ PromoteCheck(t)
    \/ ReferralRecord(t)
    \/ ReferralCalc(t)
    \/ ReferralUpdate(t)
    \/ ReferralTransaction(t)
    \/ PromoteRemove(t)
    \/ PromoteRemoveLoad(t)
    \/ PromoteRemoveDump(t)

NextReferrer == \E t \in TaskIds : BeginVerifyBy(t) \/ VerifyStep(t)

\* Re-checks by the referrer and by the two users it referred, overlapping.
SpecReferrer == InitReferrer /\ [][NextReferrer]_vars

\* -------------------------------------------------------- withdraw_command

\* context.args of /withdraw: nothing, an amount alone, or an amount and a
\* method.
WithdrawArgs ==
    {<<>>, <<"10">>} \cup {<<w, "upi">> : w \in AmountWords}

\* The users referred by user 3 and rewarded before the run.
EarlierReferred == 101..(100 + EarlierReferrals)

\* User 3 has started the bot without joining and has been rewarded for
\* EarlierReferrals referrals; users 1 and 2 have started with user 3's code
\* and not joined yet.
InitWithdraw ==
    /\ users = [u \in UserIds \cup EarlierReferred |->
                  IF u \in EarlierReferred THEN AdmittedUser(u)
                  ELSE IF u = 3
                  THEN [NewUser(3) EXCEPT
                          !.balance = ReferralBonus * EarlierReferrals,
                          !.total_earned = ReferralBonus * EarlierReferrals,
                          !.referral_count = EarlierReferrals,
                          !.transactions =
                              [i \in 1..EarlierReferrals |->
                                  [id |-> i, amount |-> ReferralBonus, type |-> "credit",
                                   description |-> <<"referral", 100 + i>>]]]
                  ELSE NewUser(u)]
    /\ referrals = [x \in EarlierReferred |-> 3]
    /\ pending = [x \in {1, 2} |-> [referrer_id |-> 3, created_at |-> 0]]
    /\ backend \in {"mongo", "file"}
    /\ faulty = FALSE
    /\ now = 0
    /\ tasks = [t \in TaskIds |-> IdleTask]
    /\ started = 0
    /\ outbox = NoOutput
    /\ verifier = NoCall
    /\ pool = NoPool
    /\ channels = Channels

\* A /withdraw update arrives: withdraw_command begins.
BeginWithdraw(t) ==
    /\ CanBegin(t)
    /\ \E uid \in Senders, args \in WithdrawArgs :
          tasks' = [tasks EXCEPT ![t] =
                      [IdleTask EXCEPT !.pc = "wd_args", !.kind = "withdraw",
                                       !.uid = uid, !.arg = args,
                                       !.referred_at_begin = IsReferred(referrals, uid),
                                       !.admitted_at_begin = IsAdmitted(users, uid)]]
    /\ started' = started + 1
    /\ outbox' = NoOutput
    /\ UNCHANGED <<users, referrals, pending, backend, faulty, now, verifier, pool, channels>>

\* The usage reply, amount = float(args[0]) with its ValueError, and the
\* minimum test.
WithdrawParse(t) ==
    LET tk == tasks[t]
        parsed == ParseFloat(tk.arg[1])
    IN
    /\ tk.pc = "wd_args"
    /\ IF Len(tk.arg) < 2
       THEN /\ tasks' = [tasks EXCEPT ![t] = IdleTask]
            /\ outbox' = <<tk.uid, {"usage"}>>
       ELSE IF ~parsed.ok
       THEN /\ tasks' = [tasks EXCEPT ![t] = IdleTask]
            /\ outbox' = <<tk.uid, {"invalid_amount"}>>
       ELSE IF FLess(parsed.value, MinWithdrawal)
       THEN /\ tasks' = [tasks EXCEPT ![t] = IdleTask]
            /\ outbox' = <<tk.uid, {"minimum"}>>
       ELSE /\ tasks' = [tasks EXCEPT ![t] =
                            [tk EXCEPT !.pc = "wd_get_user", !.amount = parsed.value]]
            /\ outbox' = NoOutput
    /\ UNCHANGED <<users, referrals, pending, backend, faulty, now, started, verifier, pool, channels>>

\* withdraw_command without its balance test.
WithdrawGetUserNoBalanceTest(t) ==
    LET tk == tasks[t]
        us == GetUser(users, tk.uid)
        user_data == us[tk.uid]
    IN
    /\ tk.pc = "wd_get_user"
    /\ users' = us
    /\ tasks' = [tasks EXCEPT ![t] =
          [tk EXCEPT !.pc = "wd_update",
                     !.new_balance = FSub(user_data.balance, tk.amount),
                     !.total_withdrawn = FAdd(user_data.total_withdrawn, tk.amount)]]
    /\ outbox' = NoOutput
    /\ UNCHANGED <<referrals, pending, backend, faulty, now, started, verifier, pool, channels>>

\* user_data = await UserManager.get_user(user.id), the balance test, and
\* the values computed from the record for update_user.
WithdrawGetUser(t) ==
    LET tk == tasks[t]
        us == GetUser(users, tk.uid)
        user_data == us[tk.uid]
    IN
    /\ tk.pc = "wd_get_user"
    /\ users' = us
    /\ IF FLess(user_data.balance, tk.amount)
       THEN /\ tasks' = [tasks EXCEPT ![t] = IdleTask]
            /\ outbox' = <<tk.uid, {"insufficient"}>>
       ELSE /\ tasks' = [tasks EXCEPT ![t] =
                  [tk EXCEPT !.pc = "wd_update",
                             !.new_balance = FSub(user_data.balance, tk.amount),
                             !.total_withdrawn =
                                 FAdd(user_data.total_withdrawn, tk.amount)]]
            /\ outbox' = NoOutput
    /\ UNCHANGED <<referrals, pending, backend, faulty, now, started, verifier, pool, channels>>

\* withdraw_command writing has_joined_channels = False with the balance.
WithdrawUpdateClearsJoined(t) ==
    LET tk == tasks[t] IN
    /\ tk.pc = "wd_update"
    /\ users' = UpdateUser(users, tk.uid,
                    [balance |-> tk.new_balance,
                     total_withdrawn |-> tk.total_withdrawn,
                     has_joined_channels |-> FALSE])
    /\ tasks' = [tasks EXCEPT ![t].pc = "wd_tx"]
    /\ outbox' = NoOutput
    /\ UNCHANGED <<referrals, pending, backend, faulty, now, started, verifier, pool, channels>>

\* await UserManager.update_user(user.id, {'balance': ..., 'total_withdrawn': ...})
WithdrawUpdate(t) ==
    LET tk == tasks[t] IN
    /\ tk.pc = "wd_update"
    /\ users' = UpdateUser(users, tk.uid,
                    [balance |-> tk.new_balance,
                     total_withdrawn |-> tk.total_withdrawn])
    /\ tasks' = [tasks EXCEPT ![t].pc = "wd_tx"]
    /\ outbox' = NoOutput
    /\ UNCHANGED <<referrals, pending, backend, faulty, now, started, verifier, pool, channels>>

\* await UserManager.add_transaction(user.id, -amount, 'withdrawal', ...),
\* then the notice to the admins and the reply to the user.
WithdrawTransaction(t) ==
    LET tk == tasks[t] IN
    /\ tk.pc = "wd_tx"
    /\ users' = AddTransaction(users, tk.uid, FNeg(tk.amount), "withdrawal",
                               <<"withdrawal", 0>>)
    /\ tasks' = [tasks EXCEPT ![t] = IdleTask]
    /\ outbox' = <<tk.uid, {"withdrawal_submitted"}>>
    /\ UNCHANGED <<referrals, pending, backend, faulty, now, started, verifier, pool, channels>>

WithdrawStep(t) ==
    \/ BeginWithdraw(t)
    \/ WithdrawParse(t)
    \/ WithdrawGetUser(t)
    \/ WithdrawUpdate(t)
    \/ WithdrawTransaction(t)

NextWithdraw == \E t \in TaskIds : WithdrawStep(t) \/ BeginVerifyBy(t) \/ VerifyStep(t)

\* Withdrawals by user 3 overlapping with each other, with user 3's welcome
\* bonus and with the rewards for the referrals of users 1 and 2.
SpecWithdraw == InitWithdraw /\ [][NextWithdraw]_vars

\* ------------------------------------------------------- all the handlers

\* start_command up to the membership check.
StartHead(t) ==
    \/ BeginStart(t)
    \/ StartGetUser(t)
    \/ StartArgsCheck(t)
    \/ StartLookup(t)
    \/ StartPendingGet(t)
    \/ StartPendingSave(t)
    \/ StartPendingLoad(t)
    \/ StartPendingDump(t)

NextAll ==
    \E t \in TaskIds :
        StartHead(t) \/ BeginVerifyBy(t) \/ VerifyStep(t) \/ WithdrawStep(t)

\* Starts and withdrawals by user 3 and re-checks by users 1, 2 and 3,
\* overlapping, from the state of InitWithdraw.
SpecAll == InitWithdraw /\ [][NextAll]_vars

\* One /withdraw at a time.
NextWithdrawSequential == WithdrawStep(1)

SpecWithdrawSequential == InitWithdraw /\ [][NextWithdrawSequential]_vars

\* ----------------------------------------------------- add_transaction alone

\* UserManager.add_transaction is about to be called, again and again, for
\* one user id: user 1 (admitted, one transaction), user 2 (no transaction)
\* or user 3 (never created).
InitLedger ==
    /\ users = (1 :> AdmittedUser(1)) @@ (2 :> NewUser(2))
    /\ referrals = <<>>
    /\ pending = <<>>
    /\ backend \in {"mongo", "file"}
    /\ faulty = FALSE
    /\ now = 0
    /\ \E uid \in UserIds :
          tasks = [t \in TaskIds |->
                     IF t = 1
                     THEN [IdleTask EXCEPT !.pc = "apply", !.kind = "ledger", !.uid = uid]
                     ELSE IdleTask]
    /\ started = 0
    /\ outbox = NoOutput
    /\ verifier = NoCall
    /\ pool = NoPool
    /\ channels = Channels

\* One call add_transaction(uid, 1.0, 'credit', ...); the description
\* carries the number of the call.
ApplyTransaction ==
    /\ tasks[1].pc = "apply"
    /\ started < MaxAppends
    /\ users' = AddTransaction(users, tasks[1].uid, ReferralBonus, "credit",
                               <<"referral", started + 1>>)
    /\ started' = started + 1
    /\ UNCHANGED <<referrals, pending, backend, faulty, now, tasks, outbox, verifier,
                   pool, channels>>

SpecLedger == InitLedger /\ [][ApplyTransaction]_vars

\* ------------------------------------------------- the code lookup alone

\* User ids whose decimal texts are prefixes, suffixes or permutations of one
\* another.
CodeIds == {1, 10, 11, 101, 110}

\* The words presented to /start: the codes of these ids, the code of an id
\* that is never created, and words that differ from a code by a leading
\* zero, a trailing digit or a missing digit.
PresentedCodes ==
    {ReferralCodeOf(n) : n \in CodeIds \cup {100}}
        \cup {<<"REF", 0, 1>>, <<"REF", 1, 0, 1, 0>>, <<"REF">>}

\* No user has been created yet.
InitCodes ==
    /\ users = <<>>
    /\ referrals = <<>>
    /\ pending = <<>>
    /\ backend \in {"mongo", "file"}
    /\ faulty = FALSE
    /\ now = 0
    /\ tasks = [t \in TaskIds |-> IdleTask]
    /\ started = 0
    /\ outbox = NoOutput
    /\ verifier = NoCall
    /\ pool = NoPool
    /\ channels = Channels

\* get_user for one of the ids: the first call creates the record.
CreateUser ==
    /\ \E uid \in CodeIds : users' = GetUser(users, uid)
    /\ UNCHANGED <<referrals, pending, backend, faulty, now, tasks, started, outbox,
                   verifier, pool, channels>>

\* The locked loop of start_command over the table, for a presented word.
LookupCode ==
    /\ \E code \in PresentedCodes :
          tasks' = [tasks EXCEPT ![1] =
                      [IdleTask EXCEPT !.pc = "looked_up", !.kind = "start",
                                       !.arg = code,
                                       !.referrer_found =
                                           LookupByReferralCode(users, code)]]
    /\ UNCHANGED <<users, referrals, pending, backend, faulty, now, started, outbox,
                   verifier, pool, channels>>

NextCodes == CreateUser \/ LookupCode

SpecCodes == InitCodes /\ [][NextCodes]_vars

\* ---------------------------------------------- handlers and channels

\* The state after construction for one of the environments, with the
\* users, referrals and pending records of InitWithdraw.
InitEnv ==
    /\ users = [u \in UserIds \cup EarlierReferred |->
                  IF u \in EarlierReferred THEN AdmittedUser(u)
                  ELSE IF u = 3
                  THEN [NewUser(3) EXCEPT
                          !.balance = ReferralBonus * EarlierReferrals,
                          !.total_earned = ReferralBonus * EarlierReferrals,
                          !.referral_count = EarlierReferrals,
                          !.transactions =
                              [i \in 1..EarlierReferrals |->
                                  [id |-> i, amount |-> ReferralBonus, type |-> "credit",
                                   description |-> <<"referral", 100 + i>>]]]
                  ELSE NewUser(u)]
    /\ referrals = [x \in EarlierReferred |-> 3]
    /\ pending = [x \in {1, 2} |-> [referrer_id |-> 3, created_at |-> 0]]
    /\ backend \in {"mongo", "file"}
    /\ faulty = FALSE
    /\ now = 0
    /\ tasks = [t \in TaskIds |-> IdleTask]
    /\ started = 0
    /\ outbox = NoOutput
    /\ verifier = NoCall
    /\ pool = NoPool
    /\ \E items \in EnvLists : channels = InitChannelsFromEnv(items)

\* /start, Verify Join, the menu and /withdraw, one handler at a time.
NextEnv == StartHead(1) \/ BeginVerifyBy(1) \/ VerifyStep(1) \/ WithdrawStep(1)

SpecEnv == InitEnv /\ [][NextEnv]_vars

\* ------------------------------------------------------ admin operations

\* ADMIN_IDS, and the users who send the admin commands and callbacks: the
\* admin and one other user.
AdminIds == {1}

AdminSenders == {1, 3}

\* The admin commands, and the callback data that begin with admin_; the
\* confirm button of a broadcast carries the message after its prefix.
AdminCommands == {"/backup", "/stats", "/broadcast"}

AdminCallbacks ==
    {"admin_panel", "admin_channels", "admin_stats", "admin_backup",
     "admin_restart", "admin_restart_soft", "admin_broadcast_confirm_"}

\* An admin command or an admin_ callback arrives from one of the senders.
BeginAdmin(t) ==
    /\ CanBegin(t)
    /\ \E uid \in AdminSenders, word \in AdminCommands \cup AdminCallbacks :
          tasks' = [tasks EXCEPT ![t] =
                      [IdleTask EXCEPT !.pc = "a_run", !.kind = "admin",
                                       !.uid = uid, !.arg = <<word>>]]
    /\ started' = started + 1
    /\ outbox' = NoOutput
    /\ UNCHANGED <<users, referrals, pending, backend, faulty, now, verifier, pool, channels>>

\* The handler the update is dispatched to, and what it sends.  The three
\* commands, admin_panel_callback and admin_channels_callback begin with
\* `if user.id not in ADMIN_IDS`; admin_handle_callback, which gets every
\* other callback whose data begins with admin_, has no such test.
\* "broadcast" is one send_message to every user of the table; the soft
\* restart loads the tables last saved, which are the tables in memory when
\* storage works, and backup saves them.
AdminRun(t) ==
    LET tk == tasks[t]
        word == tk.arg[1]
        is_admin == tk.uid \in AdminIds
        sent ==
            CASE word = "/backup" ->
                    IF is_admin THEN {"backup_done"} ELSE {"admin_only"}
              [] word = "/stats" ->
                    IF is_admin THEN {"stats"} ELSE {"admin_only"}
              [] word = "/broadcast" ->
                    IF is_admin THEN {"broadcast_confirmation"} ELSE {"admin_only"}
              [] word = "admin_panel" ->
                    IF is_admin THEN {"admin_panel"} ELSE {"admin_only"}
              [] word = "admin_channels" ->
                    IF is_admin THEN {"channel_list"} ELSE {"admin_only"}
              [] word = "admin_broadcast_confirm_" -> {"broadcast", "broadcast_complete"}
              [] word = "admin_stats" -> {"stats"}
              [] word = "admin_backup" -> {"backup_done"}
              [] word = "admin_restart" -> {"restart_options"}
              [] word = "admin_restart_soft" -> {"data_reloaded"}
    IN
    /\ tk.pc = "a_run"
    /\ tasks' = [tasks EXCEPT ![t] = IdleTask]
    /\ outbox' = <<tk.uid, sent>>
    /\ UNCHANGED <<users, referrals, pending, backend, faulty, now, started, verifier, pool, channels>>

NextAdmin == \E t \in TaskIds : BeginAdmin(t) \/ AdminRun(t)

\* Admin commands and admin_ callbacks from the admin and from another user.
SpecAdmin == Init /\ [][NextAdmin]_vars

\* ------------------------------------------------------ a handler raises

\* What the `except Exception` of the handler sends: start_command,
\* verify_join_callback and withdraw_command answer with an error text;
\* show_main_menu only logs.
ErrorReply(tk) ==
    IF tk.pc = "menu" THEN NoOutput ELSE <<tk.uid, {"error"}>>

\* An exception in one handler that ends every handler in flight.
HandlerRaisesCrashing(t) ==
    /\ tasks[t].pc # "idle"
    /\ tasks' = [s \in TaskIds |-> IdleTask]
    /\ outbox' = ErrorReply(tasks[t])
    /\ UNCHANGED <<users, referrals, pending, backend, faulty, now, started, verifier, pool, channels>>

\* The await at which handler t stands raises: the exception leaves every
\* `async with` on its way (the lock is released by __aexit__), reaches the
\* handler's `except Exception`, and the handler returns.
HandlerRaises(t) ==
    /\ tasks[t].pc # "idle"
    /\ tasks' = [tasks EXCEPT ![t] = IdleTask]
    /\ outbox' = ErrorReply(tasks[t])
    /\ UNCHANGED <<users, referrals, pending, backend, faulty, now, started, verifier, pool, channels>>

NextRaising ==
    \E t \in TaskIds :
        StartHead(t) \/ BeginVerifyBy(t) \/ VerifyStep(t) \/ HandlerRaises(t)

\* Starts by user 3 and re-checks by users 1, 2 and 3, overlapping, where any
\* await may raise.
SpecRaising == InitReferrer /\ [][NextRaising]_vars

\* ------------------------------------------------- the lock and the pool
\* `async with data_manager._async_lock()` runs lock.acquire and lock.release
\* as jobs of `executor`, the pool that also runs every storage call.  The
\* pool has PoolSize worker threads and a first-in first-out queue.  A worker
\* that runs lock.acquire while the lock is held stays in that call until the
\* lock is free.  pool.holder is the position of the coroutine that holds the
\* lock; pool.blocked counts the workers inside lock.acquire.

InitLock ==
    /\ InitCommon
    /\ faulty = FALSE
    /\ verifier = NoCall

\* AsyncLock.__aenter__: a handler submits lock.acquire to the pool.
AEnter ==
    /\ pool.arrived < MaxHandlers
    /\ pool' = [pool EXCEPT !.arrived = @ + 1, !.queue = Append(@, "acquire")]
    /\ UNCHANGED <<users, referrals, pending, backend, faulty, now, tasks, started,
                   outbox, verifier, channels>>

\* A free worker thread takes the oldest job of the queue and runs it.
ExecutorRun ==
    /\ pool.blocked < PoolSize
    /\ pool.queue # <<>>
    /\ LET job == Head(pool.queue)
           rest == [pool EXCEPT !.queue = Tail(@)]
       IN pool' =
            IF job = "acquire"
            THEN IF pool.lock = "free"
                 THEN [rest EXCEPT !.lock = "held", !.holder = "acquired"]
                 ELSE [rest EXCEPT !.blocked = @ + 1]
            ELSE IF job = "save"
            THEN [rest EXCEPT !.holder = "saved"]
            ELSE [rest EXCEPT !.lock = "free", !.holder = "none", !.done = @ + 1]
    /\ UNCHANGED <<users, referrals, pending, backend, faulty, now, tasks, started,
                   outbox, verifier, channels>>

\* lock.acquire returns in one of the workers that were waiting in it.
LockGranted ==
    /\ pool.lock = "free"
    /\ pool.blocked > 0
    /\ pool' = [pool EXCEPT !.blocked = @ - 1, !.lock = "held", !.holder = "acquired"]
    /\ UNCHANGED <<users, referrals, pending, backend, faulty, now, tasks, started,
                   outbox, verifier, channels>>

\* Inside the lock, get_user of a new user and update_user:
\* await Storage.save_users(...) submits the write to the pool.
SubmitSave ==
    /\ pool.holder = "acquired"
    /\ pool' = [pool EXCEPT !.holder = "saving", !.queue = Append(@, "save")]
    /\ UNCHANGED <<users, referrals, pending, backend, faulty, now, tasks, started,
                   outbox, verifier, channels>>

\* AsyncLock.__aexit__: the holder submits lock.release to the pool, after
\* the write or, in get_user of a known user, without one.
AExit ==
    /\ pool.holder \in {"acquired", "saved"}
    /\ pool' = [pool EXCEPT !.holder = "releasing", !.queue = Append(@, "release")]
    /\ UNCHANGED <<users, referrals, pending, backend, faulty, now, tasks, started,
                   outbox, verifier, channels>>

NextLock == AEnter \/ ExecutorRun \/ LockGranted \/ SubmitSave \/ AExit

\* Handlers that take the lock, at any overlap.
SpecLock == InitLock /\ [][NextLock]_vars

\* ------------------------------------------------------------- properties

\* The sum of the amounts of a transaction log.
RECURSIVE SumAmounts(_)
SumAmounts(txs) ==
    IF Len(txs) = 0 THEN 0 ELSE Head(txs).amount + SumAmounts(Tail(txs))

\* The number of entries of user uid's log that carry this description.
TxCount(us, uid, description) ==
    IF uid \in DOMAIN us
    THEN Cardinality({i \in 1..Len(us[uid].transactions) :
                         us[uid].transactions[i].description = description})
    ELSE 0

\* The number of welcome-bonus transactions of user uid.
WelcomeTxCount(us, uid) == TxCount(us, uid, <<"welcome", 0>>)

\* The referrers whose log holds a reward for bringing in user x.
RewardedFor(us, x) == {r \in DOMAIN us : TxCount(us, r, <<"referral", x>>) > 0}

\* The number of referral-reward transactions, on any log, for bringing in x.
RECURSIVE RewardTxCountOver(_, _, _)
RewardTxCountOver(us, x, rs) ==
    IF rs = {} THEN 0
    ELSE LET r == CHOOSE r \in rs : TRUE
         IN TxCount(us, r, <<"referral", x>>) + RewardTxCountOver(us, x, rs \ {r})

RewardTxCount(us, x) == RewardTxCountOver(us, x, DOMAIN us)

\* The handlers that are running for user x.
Running(x) == {t \in TaskIds : tasks[t].pc # "idle" /\ tasks[t].uid = x}

\* The handlers that recorded the referral of x and have not yet appended the
\* referrer's reward.
Crediting(x) ==
    {t \in Running(x) : tasks[t].pc \in {"a_calc", "a_update", "a_tx"}}

\* The part of the users table that rewards touch.
Ledger(us) ==
    [u \in DOMAIN us |->
        [balance |-> us[u].balance,
         total_earned |-> us[u].total_earned,
         referral_count |-> us[u].referral_count,
         transactions |-> us[u].transactions]]

\* The two onboarding flags of every user.
Flags(us) ==
    [u \in DOMAIN us |->
        [has_joined_channels |-> us[u].has_joined_channels,
         welcome_bonus_received |-> us[u].welcome_bonus_received]]

\* The users table changed at most by get_user creating fresh records.
OnlyFreshUsers ==
    \A u \in DOMAIN users' :
        IF u \in DOMAIN users
        THEN Ledger(users')[u] = Ledger(users)[u] /\ Flags(users')[u] = Flags(users)[u]
        ELSE users'[u] = NewUser(u)

\* The handler in slot t takes this step.
Acts(t) == tasks'[t] # tasks[t]

\* Whether the /start argument carries a referral code.
HasCode(tk) == Len(tk.arg) > 0 /\ tk.arg[1] = "REF"

\* C1: in every reachable state each user's balance equals the sum of the
\* amounts of that user's transactions.
C1_BalanceEqualsTransactionSum ==
    \A u \in DOMAIN users : users[u].balance = SumAmounts(users[u].transactions)

\* C2: a user never has more than one welcome-bonus transaction, and once the
\* flag is set and no handler is between the flag and the log entry, has
\* exactly one, however many onboarding handlers run concurrently.
C2_ExactlyOneWelcomeBonus ==
    \A u \in DOMAIN users :
        /\ WelcomeTxCount(users, u) <= 1
        /\ ( /\ users[u].welcome_bonus_received
             /\ \A t \in Running(u) : tasks[t].pc # "w_tx" )
           => WelcomeTxCount(users, u) = 1

\* C3: however many promotions run concurrently for a referred user x, a
\* completed referral of x has exactly one reward, either appended to the
\* log of its referrer or being appended by the one handler that recorded it,
\* and without a completed referral there is no reward for x at all.
C3_ExactlyOneReferralReward ==
    \A x \in UserIds :
        IF x \in DOMAIN referrals
        THEN /\ RewardTxCount(users, x) + Cardinality(Crediting(x)) = 1
             /\ RewardedFor(users, x) \subseteq {referrals[x]}
             /\ \A t \in Crediting(x) : tasks[t].pending_referrer = referrals[x]
        ELSE /\ RewardTxCount(users, x) = 0
             /\ Crediting(x) = {}

\* C3 witness: one promotion for user 3 is appending the reward while a
\* second one, which read the same pending record, is about to record.
C3_Witness ==
    \E t1, t2 \in TaskIds :
        /\ tasks[t1].uid = 3 /\ tasks[t2].uid = 3
        /\ tasks[t1].pc = "a_tx"
        /\ tasks[t2].pc = "a_record"
        /\ tasks[t2].pending_referrer = tasks[t1].pending_referrer

\* C4: a step of a handler whose membership check has not answered
\* "satisfied" (not yet, unsatisfied, timed out or raised) appends no
\* transaction, changes no balance, creates no completed referral and sets
\* neither onboarding flag; at most it creates a fresh user record.
C4_NoRewardWithoutSatisfiedGate ==
    [][\A t \in TaskIds :
          (Acts(t) /\ tasks[t].gate # "satisfied")
              => (referrals' = referrals /\ OnlyFreshUsers)]_vars

\* C4 witness: a membership check of user 3 answered unsatisfied and the
\* handler ended with the join buttons, user 3 being neither credited nor
\* flagged.
C4_Witness ==
    /\ outbox = <<3, {"join_buttons"}>>
    /\ 3 \in DOMAIN users
    /\ users[3] = NewUser(3)

\* C5: when the verifier is asked about K >= 1 channels and the probe of a
\* channel times out or raises, the answer is not satisfied and lists that
\* channel, whatever the other probes return.
C5_FailClosed ==
    verifier.called =>
        \A i \in 1..Len(verifier.channels) :
            verifier.outcomes[i] \in {"timeout", "error"} =>
                /\ ~verifier.has_joined
                /\ \E j \in 1..Len(verifier.not_joined) :
                      verifier.not_joined[j] = verifier.channels[i]

\* C5 witness: of three channels the second probe timed out and the other
\* two probes found a member.
C5_Witness ==
    /\ verifier.called
    /\ verifier.outcomes = <<"member", "timeout", "member">>
    /\ ~verifier.has_joined
    /\ verifier.not_joined = <<2>>

\* C6: no handler that runs more than the TTL after its user's pending
\* record was created, and so finds membership satisfied that late, goes on
\* to credit the referrer.
C6_ExpiredPendingNeverPromoted ==
    \A t \in TaskIds :
        (tasks[t].pc = "a_calc" /\ tasks[t].uid \in DOMAIN pending)
            => now - pending[tasks[t].uid].created_at <= TTLDays

\* C7, first part: a start with the code of another, existing user by a user
\* without a completed referral has reached the membership check with a
\* pending record stored, and no reward has been credited for that user.
C7_PendingRecorded ==
    \A t \in TaskIds :
        LET tk == tasks[t] IN
        ( /\ tk.pc = "check" /\ tk.kind = "start" /\ HasCode(tk)
          /\ LookupByReferralCode(users, tk.arg) \notin {0, tk.uid}
          /\ ~IsReferred(referrals, tk.uid) )
        => /\ tk.uid \in DOMAIN pending
           /\ RewardTxCount(users, tk.uid) = 0

\* C7, second part: the satisfied re-check reads the stored pending record.
C7_PendingRead ==
    \A t \in TaskIds :
        (tasks[t].pc = "p_get" /\ Acts(t))
            => tasks'[t].pending_referrer = GetPendingReferrer(pending, tasks[t].uid)

\* C7, third part: when a handler whose check was satisfied and which read
\* a pending record ends, its user is admitted with exactly one welcome
\* credit, the user's referral to the referrer of the record is completed,
\* the referrer's log holds exactly one reward for it and the pending record
\* is gone.
C7_SatisfiedEnd ==
    \A t \in TaskIds :
        LET tk == tasks[t] IN
        (tk.gate = "satisfied" /\ tk.pending_referrer # 0 /\ tasks'[t].pc = "idle")
        => /\ users'[tk.uid].has_joined_channels
           /\ users'[tk.uid].welcome_bonus_received
           /\ WelcomeTxCount(users', tk.uid) = 1
           /\ users'[tk.uid].balance =
                 WelcomeBonus + ReferralBonus *
                     Cardinality({x \in DOMAIN referrals' : referrals'[x] = tk.uid})
           /\ tk.uid \in DOMAIN referrals'
           /\ referrals'[tk.uid] = tk.pending_referrer
           /\ TxCount(users', tk.pending_referrer, <<"referral", tk.uid>>) = 1
           /\ RewardTxCount(users', tk.uid) = 1
           /\ tk.uid \notin DOMAIN pending'

\* C7, fourth part: a handler that begins for a user who is admitted and
\* referred appends no transaction and changes no balance.
C7_SecondCheckCreditsNothing ==
    \A t \in TaskIds :
        (Acts(t) /\ tasks[t].referred_at_begin) => Ledger(users') = Ledger(users)

\* C7: in a run of one handler at a time, B's start with A's code records a
\* pending referral without credit; B's satisfied re-check gives B one
\* welcome credit and A one referral reward, removes the pending record and
\* admits B; a further re-check appends nothing.
C7_EndToEndReward ==
    /\ []C7_PendingRecorded
    /\ [][C7_PendingRead /\ C7_SatisfiedEnd /\ C7_SecondCheckCreditsNothing]_vars

\* C7 witness: after three updates of user 3 nothing runs, the last re-check
\* answered "verified" without a new credit, user 3 is admitted with one
\* welcome credit and user 1 holds one reward for user 3, whose pending
\* record is gone.
C7_Witness ==
    /\ started = 3
    /\ \A t \in TaskIds : tasks[t].pc = "idle"
    /\ outbox = <<3, {"verified", "main_menu"}>>
    /\ 3 \in DOMAIN referrals /\ referrals[3] = 1
    /\ users[3].has_joined_channels /\ users[3].welcome_bonus_received
    /\ users[3].balance = WelcomeBonus /\ Len(users[3].transactions) = 1
    /\ users[1].balance = WelcomeBonus + ReferralBonus
    /\ Len(users[1].transactions) = 2
    /\ 3 \notin DOMAIN pending

\* C8, the tables: no pending record and no completed referral names a user
\* as their own referrer, and add_referral(X, X) is refused without a change.
C8_NoSelfRecord ==
    /\ \A x \in DOMAIN pending : pending[x].referrer_id # x
    /\ \A x \in DOMAIN referrals : referrals[x] # x
    /\ \A x \in UserIds :
          RecordReferral(referrals, x, x) = [is_new |-> FALSE, referrals |-> referrals]

\* C8, the attempt: the lookup of a user's own code is answered with the
\* rejection and changes no user, no referral and no pending record.
C8_OwnCodeRejected ==
    \A t \in TaskIds :
        LET tk == tasks[t] IN
        ( /\ Acts(t) /\ tk.pc = "s_lookup"
          /\ tk.uid \in DOMAIN users /\ tk.arg = users[tk.uid].referral_code )
        => /\ outbox' = <<tk.uid, {"own_link_rejected"}>>
           /\ tasks'[t].pc = "check"
           /\ UNCHANGED <<users, referrals, pending, channels>>

\* C8: a user who presents their own code gets an explicit rejection, no
\* balance changes, and no pending or completed record with referrer equal to
\* referred ever exists.
C8_NoSelfReferral ==
    /\ []C8_NoSelfRecord
    /\ [][C8_OwnCodeRejected]_vars

\* C8 witness: user 3 was just told that their own link cannot be used.
C8_Witness ==
    /\ outbox = <<3, {"own_link_rejected"}>>
    /\ 3 \notin DOMAIN pending

\* C9: every step of a start with a referral code that began when its user
\* already had a completed referral leaves the pending table, the referral
\* table and every balance, counter and transaction log unchanged, and its
\* argument test answers "already referred" and goes on to the membership
\* check without looking the code up.
C9_AlreadyReferredRejected ==
    [][\A t \in TaskIds :
          LET tk == tasks[t] IN
          (Acts(t) /\ tk.kind = "start" /\ HasCode(tk) /\ tk.referred_at_begin)
          => /\ pending' = pending
             /\ referrals' = referrals
             /\ Ledger(users') = Ledger(users)
             /\ tk.pc = "s_args" =>
                   /\ outbox' = <<tk.uid, {"already_referred"}>>
                   /\ tasks'[t].pc = "check"]_vars

\* C9 witness: user 3, referred by user 1, was just told "already referred"
\* on a start with the code of user 2.
C9_Witness ==
    /\ outbox = <<3, {"already_referred"}>>
    /\ 3 \in DOMAIN referrals /\ referrals[3] = 1
    /\ \E t \in TaskIds : tasks[t].uid = 3 /\ tasks[t].arg = <<"REF", 2>>
                          /\ tasks[t].pc = "check"
    /\ 3 \notin DOMAIN pending

\* C10: an entry of the completed-referral table is never replaced and never
\* removed, so a referred user keeps the one referrer first recorded.
C10_ReferralNeverReplaced ==
    [][\A x \in DOMAIN referrals :
          x \in DOMAIN referrals' /\ referrals'[x] = referrals[x]]_vars

\* C10 witness: user 3 is referred by one user while a handler that read a
\* pending record naming another referrer is about to record a referral.
C10_Witness ==
    \E t \in TaskIds :
        /\ tasks[t].pc = "a_record"
        /\ tasks[t].uid \in DOMAIN referrals
        /\ referrals[tasks[t].uid] # tasks[t].pending_referrer

\* C11: no step of a start or re-check that began for an admitted user
\* appends a transaction, changes a balance or a counter, or changes the
\* pending table or the completed-referral table.
C11_AdmittedReentryNoOp ==
    [][\A t \in TaskIds :
          (Acts(t) /\ tasks[t].admitted_at_begin)
              => /\ Ledger(users') = Ledger(users)
                 /\ pending' = pending
                 /\ referrals' = referrals]_vars

\* C12, the function: get_user of a known id returns the table as it is,
\* and of an unknown id adds exactly the zero record with both flags false.
C12_GetUserCreatesOnce ==
    \A u \in UserIds :
        IF u \in DOMAIN users
        THEN GetUser(users, u) = users
        ELSE /\ DOMAIN GetUser(users, u) = DOMAIN users \cup {u}
             /\ GetUser(users, u)[u] = NewUser(u)
             /\ NewUser(u).balance = 0
             /\ ~NewUser(u).has_joined_channels
             /\ ~NewUser(u).welcome_bonus_received
             /\ \A v \in DOMAIN users : GetUser(users, u)[v] = users[v]

\* C12, the steps: no step removes a user or changes a user's id or code, a
\* record that appears is the zero record, and a step that is a call of
\* get_user leaves every existing record as it was.
C12_UsersKept ==
    /\ \A u \in DOMAIN users :
          /\ u \in DOMAIN users'
          /\ users'[u].user_id = users[u].user_id
          /\ users'[u].referral_code = users[u].referral_code
    /\ \A u \in DOMAIN users' \ DOMAIN users : users'[u] = NewUser(u)
    /\ \A t \in TaskIds :
          (Acts(t) /\ tasks[t].pc \in {"s_get_user", "w_get_user", "a_calc", "menu"})
              => \A u \in DOMAIN users : users'[u] = users[u]

\* C12: concurrent get_user calls for an unknown id leave exactly one zero
\* record, a later get_user never resets a record, and no handler deletes a
\* user.
C12_GetOrCreateSafe ==
    /\ []C12_GetUserCreatesOnce
    /\ [][C12_UsersKept]_vars

\* C12 witness: two handlers of the unknown user 3 have both called get_user,
\* one in start_command and one in give_welcome_bonus, and the table holds
\* the one zero record.
C12_Witness ==
    /\ 3 \in DOMAIN users /\ users[3] = NewUser(3)
    /\ \E t1, t2 \in TaskIds :
          /\ tasks[t1].uid = 3 /\ tasks[t1].pc = "s_args"
          /\ tasks[t2].uid = 3 /\ tasks[t2].pc = "w_check"

\* The completed referrals that name the referrer r.
ReferredBy(r) == {x \in DOMAIN referrals : referrals[x] = r}

\* C13: once no handler is running, the referrer's referral_count is the
\* number of completed referrals naming it and its balance holds the welcome
\* bonus it received and one reward for each of them.
C13_ReferrerCreditsSerialized ==
    (\A t \in TaskIds : tasks[t].pc = "idle")
        => \A r \in DOMAIN users :
              /\ users[r].referral_count = Cardinality(ReferredBy(r))
              /\ users[r].balance =
                    (IF users[r].welcome_bonus_received THEN WelcomeBonus ELSE 0)
                    + ReferralBonus * Cardinality(ReferredBy(r))

\* The handlers of user x that have read a pending record for x in the
\* reward path and have not yet returned from deleting it.
Promoting(x) ==
    {t \in Running(x) :
        /\ tasks[t].pending_referrer # 0
        /\ tasks[t].pc \in {"p_check", "a_record", "a_calc", "a_update", "a_tx",
                             "p_remove", "p_remove_load", "p_remove_dump"}}

\* C14: at no time have two handlers both read the pending record of the same
\* user while neither has deleted it: reading, recording, crediting and
\* deleting are not interleaved with another completion.
C14_PromotionCriticalSection ==
    \A x \in UserIds :
        x \in DOMAIN pending => Cardinality(Promoting(x)) <= 1

\* C15: whatever the storage calls do, when a start by a user without a
\* completed referral, carrying the code of another existing user and with a
\* satisfied membership check, ends, the referral is completed and rewarded
\* once, as it is when every storage call succeeds.
C15_CreditIndependentOfStorage ==
    [][\A t \in TaskIds :
          LET tk == tasks[t] IN
          ( /\ Acts(t) /\ tasks'[t].pc = "idle"
            /\ tk.kind = "start" /\ tk.gate = "satisfied" /\ HasCode(tk)
            /\ LookupByReferralCode(users, tk.arg) \notin {0, tk.uid}
            /\ ~tk.referred_at_begin )
          => /\ tk.uid \in DOMAIN referrals'
             /\ RewardTxCount(users', tk.uid) = 1]_vars

\* C16: a handler step sends the main menu only when the membership check of
\* that same handler has answered "satisfied".
C16_MenuOnlyAfterSatisfiedCheck ==
    [][\A t \in TaskIds :
          (Acts(t) /\ "main_menu" \in outbox'[2])
              => tasks[t].gate = "satisfied"]_vars

\* C19: no step replaces the referrer of a stored pending record.
C19_PendingRegistrationIdempotent ==
    [][\A x \in DOMAIN pending \cap DOMAIN pending' :
          pending'[x].referrer_id = pending[x].referrer_id]_vars

\* C20, the head of start_command: the steps that handle a code owned by
\* nobody change no table and send no error; for a sender without a completed
\* referral they send nothing at all, and the scan hands over to the
\* membership check with no referrer found.
C20_UnknownCodeSteps ==
    \A t \in TaskIds :
        LET tk == tasks[t] IN
        ( /\ Acts(t) /\ tk.kind = "start" /\ tk.pc \in {"s_args", "s_lookup"}
          /\ HasCode(tk) /\ LookupByReferralCode(users, tk.arg) = 0 )
        => /\ users' = users /\ pending' = pending /\ referrals' = referrals
           /\ outbox'[2] \subseteq {"already_referred"}
           /\ ~IsReferred(referrals, tk.uid) => outbox' = NoOutput
           /\ tasks'[t].pc \in {"s_lookup", "check"}
           /\ tk.pc = "s_lookup" => tasks'[t] = [tk EXCEPT !.pc = "check"]

\* C20, the rest: a start with a code owned by nobody is at the membership
\* check with the locals of a start without a code.
C20_SameAsNoCode ==
    \A t \in TaskIds :
        LET tk == tasks[t] IN
        ( /\ tk.kind = "start" /\ tk.pc = "check"
          /\ HasCode(tk) /\ LookupByReferralCode(users, tk.arg) = 0 )
        => [tk EXCEPT !.arg = <<>>] =
              [IdleTask EXCEPT !.pc = "check", !.kind = "start", !.uid = tk.uid,
                               !.referred_at_begin = tk.referred_at_begin,
                               !.admitted_at_begin = tk.admitted_at_begin]

\* C20: a start with a referral code that resolves to no user stores no
\* pending record and no referral, fails with no error, and goes on to the
\* membership check as a start without a code does.
C20_UnknownCodeIgnored ==
    /\ []C20_SameAsNoCode
    /\ [][C20_UnknownCodeSteps]_vars

\* C20 witness: a start of user 3 with the unknown code has been paid the
\* welcome bonus and has found no pending record; nothing is pending and no
\* referral is completed.
C20_Witness ==
    /\ pending = <<>> /\ referrals = <<>>
    /\ \E t \in TaskIds :
          /\ tasks[t].uid = 3 /\ tasks[t].kind = "start"
          /\ tasks[t].arg = UnknownCode /\ tasks[t].pc = "p_check"
          /\ tasks[t].gate = "satisfied" /\ tasks[t].pending_referrer = 0
          /\ users[3].welcome_bonus_received

\* C18: the balance of every user is a number and is not below zero.
C18_BalanceNonNegative ==
    \A u \in DOMAIN users : FGreaterEq(users[u].balance, 0)

\* C17: the lock is never held while every worker of the pool is inside
\* lock.acquire, the state in which the holder's write and its lock.release
\* can never be run and no waiting handler can ever get the lock.
C17_PoolNeverExhausted ==
    ~(pool.lock = "held" /\ pool.blocked = PoolSize)

\* C21: when the verifier is asked about K >= 1 channels and the provider
\* reports for a channel a status that is none of creator, administrator,
\* member, restricted, left and kicked, the answer is not satisfied and
\* lists that channel.
C21_UnknownStatusIsNotMember ==
    verifier.called =>
        \A i \in 1..Len(verifier.channels) :
            verifier.outcomes[i] = "unknown" =>
                /\ ~verifier.has_joined
                /\ \E j \in 1..Len(verifier.not_joined) :
                      verifier.not_joined[j] = verifier.channels[i]

\* C22: the verifier answers satisfied exactly when the probe of every
\* channel it was asked about returned true, and its list is the channels
\* whose probe did not, in configuration order (channel i is the i-th
\* configured); asked about no channel it answers satisfied with an empty
\* list.
C22_AggregatesWithAnd ==
    verifier.called =>
        /\ verifier.has_joined <=>
              \A i \in 1..Len(verifier.channels) :
                  CheckSingleChannel(verifier.outcomes[i])
        /\ verifier.not_joined =
              SelectSeq(verifier.channels,
                        LAMBDA c : ~CheckSingleChannel(verifier.outcomes[c]))
        /\ Len(verifier.channels) = 0 =>
              verifier.has_joined /\ verifier.not_joined = <<>>

\* C22 witness: of three channels the user has left the first, is in the
\* second and was removed from the third: not satisfied, listing the first
\* and the third.
C22_Witness ==
    /\ verifier.called
    /\ verifier.outcomes = <<"left", "member", "kicked">>
    /\ ~verifier.has_joined
    /\ verifier.not_joined = <<1, 3>>

\* C23: no step of a start, a re-check or a withdrawal takes a user who has
\* both onboarding flags set to a state where one of them is not set.
C23_AdmittedIsTerminal ==
    [][\A u \in DOMAIN users : IsAdmitted(users, u) => IsAdmitted(users', u)]_vars

\* C23 witness: user 3 is admitted, has withdrawn, and the last thing sent
\* to user 3 is the channel list of a membership check that was not
\* satisfied.
C23_Witness ==
    /\ IsAdmitted(users, 3)
    /\ FGreaterEq(users[3].total_withdrawn, MinWithdrawal)
    /\ outbox = <<3, {"join_buttons"}>>

\* C24: when no handler of a user with a completed referral is running, no
\* pending record for that user is stored.
C24_PendingConsumedByPromotion ==
    \A x \in DOMAIN referrals :
        Running(x) = {} => x \notin DOMAIN pending

\* C25: a step that records a completed referral (R, X) is taken while a
\* pending record for X naming R is stored, and no step removes or changes a
\* completed referral.
C25_AbsentPendingCompleted ==
    [][/\ \A x \in DOMAIN referrals' \ DOMAIN referrals :
              /\ x \in DOMAIN pending
              /\ pending[x].referrer_id = referrals'[x]
       /\ \A x \in DOMAIN referrals :
              x \in DOMAIN referrals' /\ referrals'[x] = referrals[x]]_vars

\* C26, the step: when a handler ends in its exception handler, no user
\* record, completed referral or pending record changes and every other
\* handler in flight keeps its position and its locals.
C26_RaiseChangesNothingElse ==
    \A t \in TaskIds :
        ( /\ tasks[t].pc # "idle" /\ tasks'[t].pc = "idle"
          /\ outbox' = ErrorReply(tasks[t]) )
        => /\ users' = users /\ referrals' = referrals /\ pending' = pending
           /\ \A s \in TaskIds \ {t} : tasks'[s] = tasks[s]

\* C26, the others: a handler in flight can always take its next step,
\* whatever has been raised elsewhere.
C26_NobodyBlocked ==
    \A s \in TaskIds :
        tasks[s].pc # "idle" => ENABLED (StartHead(s) \/ VerifyStep(s))

C27_UnknownUserRejected ==
    [][tasks[1].uid \notin DOMAIN users => users' = users]_vars

\* The descriptions of every transaction applied to user u up to now in a
\* run of SpecLedger, oldest first.
History(u) ==
    (IF u = 1 THEN <<<<"welcome", 0>>>> ELSE <<>>)
        \o (IF u = tasks[1].uid THEN [k \in 1..started |-> <<"referral", k>>] ELSE <<>>)

\* C28: every user's log has at most 50 entries, and it is the last
\* min(n, 50) of the n transactions applied to the user, oldest first.
C28_LogBounded ==
    \A u \in DOMAIN users :
        LET log == users[u].transactions
            all == History(u)
        IN /\ Len(log) <= MaxTransactions
           /\ Len(log) = IF Len(all) < MaxTransactions THEN Len(all) ELSE MaxTransactions
           /\ \A i \in 1..Len(log) :
                  log[i].description = all[Len(all) - Len(log) + i]

\* C28 witness: after 52 transactions for user 2 the log holds the
\* transactions 3 to 52.
C28_Witness ==
    /\ tasks[1].uid = 2
    /\ started = 52
    /\ Len(users[2].transactions) = 50
    /\ users[2].transactions[1].description = <<"referral", 3>>
    /\ users[2].transactions[50].description = <<"referral", 52>>

\* C30: along every user's log the transaction id strictly increases, so no
\* two transactions of a user have the same id.
C30_IdsStrictlyIncrease ==
    \A u \in DOMAIN users :
        LET log == users[u].transactions
        IN \A i, j \in 1..Len(log) : i < j => log[i].id < log[j].id

\* The sum of the amounts of the transactions of one type in a log.
RECURSIVE SumOfType(_, _)
SumOfType(txs, tx_type) ==
    IF txs = <<>> THEN 0
    ELSE FAdd(IF Head(txs).type = tx_type THEN Head(txs).amount ELSE 0,
              SumOfType(Tail(txs), tx_type))

\* C29: when no handler is running, every user's total_earned is the sum of
\* the credits applied to the user, total_withdrawn is the sum of the
\* withdrawals accepted, and the balance is their difference.  In
\* SpecWithdraw no log reaches 50 entries, so the log holds every
\* transaction applied.  The two sides are compared as values, so an
\* aggregate that is not a number agrees with a sum that is not a number.
C29_AggregatesExact ==
    (\A t \in TaskIds : tasks[t].pc = "idle")
        => \A u \in DOMAIN users :
              /\ users[u].total_earned = SumOfType(users[u].transactions, "credit")
              /\ users[u].total_withdrawn
                    = FNeg(SumOfType(users[u].transactions, "withdrawal"))
              /\ users[u].balance
                    = FSub(users[u].total_earned, users[u].total_withdrawn)

\* Every user's referral_code is the code of the user's id, and no two users
\* have the same code.
CodesUnique ==
    /\ \A u \in DOMAIN users : users[u].referral_code = ReferralCodeOf(u)
    /\ \A u, v \in DOMAIN users :
          u # v => users[u].referral_code # users[v].referral_code

\* A lookup answers the user whose id the presented word is the code of, or
\* nobody when that user has not been created or the word is no id's code.
LookupExact ==
    \A t \in TaskIds :
        (tasks'[t].pc = "looked_up" /\ tasks'[t] # tasks[t]) =>
            LET r == tasks'[t].referrer_found
                owners == {n \in CodeIds \cup {100} :
                              <<"REF">> \o Str(n) = tasks'[t].arg}
            IN IF r # 0
               THEN r \in DOMAIN users /\ owners = {r}
               ELSE owners \cap DOMAIN users = {}

\* C31: every user's referral_code is derived from the user's id, no two
\* users share a code, and the lookup of a presented code answers exactly the
\* user whose id produced it, or nobody when no such user was created.
C31_CodesUniqueAndDeterministic == []CodesUnique /\ [][LookupExact]_vars

\* Users 1, 10 and 101 exist and the code of user 10 was looked up.
C31_Witness ==
    /\ {1, 10, 101} \subseteq DOMAIN users
    /\ tasks[1].pc = "looked_up"
    /\ tasks[1].arg = <<"REF", 1, 0>>
    /\ tasks[1].referrer_found = 10

\* The balance, total_withdrawn and transactions of user u.
Account(us, u) ==
    <<us[u].balance, us[u].total_withdrawn, us[u].transactions>>

\* The steps of withdraw_command up to the balance test change nothing of
\* the account, and an amount that is a number below the minimum or above
\* the balance ends the handler there with the rejection.
WithdrawRejects ==
    \A t \in TaskIds :
        LET tk == tasks[t] IN
        (tk.kind = "withdraw" /\ tk.pc \in {"wd_args", "wd_get_user"}
            /\ tasks'[t] # tk) =>
            /\ Account(users', tk.uid) = Account(users, tk.uid)
            /\ (tk.pc = "wd_args" /\ Len(tk.arg) >= 2 /\ ParseFloat(tk.arg[1]).ok
                    /\ ParseFloat(tk.arg[1]).value # NaN
                    /\ ParseFloat(tk.arg[1]).value < MinWithdrawal)
                  => tasks'[t].pc = "idle" /\ outbox' = <<tk.uid, {"minimum"}>>
            /\ (tk.pc = "wd_get_user" /\ tk.amount # NaN
                    /\ users[tk.uid].balance # NaN
                    /\ tk.amount > users[tk.uid].balance)
                  => tasks'[t].pc = "idle" /\ outbox' = <<tk.uid, {"insufficient"}>>

\* The two writes of an accepted withdrawal: the balance goes down by the
\* amount and total_withdrawn up by it, then one transaction of minus the
\* amount is appended.
WithdrawApplies ==
    \A t \in TaskIds :
        LET tk == tasks[t]
            u == tk.uid
        IN
        /\ (tk.pc = "wd_update" /\ tasks'[t].pc = "wd_tx") =>
              /\ users'[u].balance = FSub(users[u].balance, tk.amount)
              /\ users'[u].total_withdrawn = FAdd(users[u].total_withdrawn, tk.amount)
              /\ users'[u].transactions = users[u].transactions
        /\ (tk.pc = "wd_tx" /\ tasks'[t].pc = "idle") =>
              /\ users'[u].balance = users[u].balance
              /\ users'[u].total_withdrawn = users[u].total_withdrawn
              /\ Len(users'[u].transactions) = Len(users[u].transactions) + 1
              /\ SubSeq(users'[u].transactions, 1, Len(users[u].transactions))
                    = users[u].transactions
              /\ users'[u].transactions[Len(users'[u].transactions)].amount
                    = FNeg(tk.amount)
              /\ users'[u].transactions[Len(users'[u].transactions)].type
                    = "withdrawal"

\* C32: a /withdraw of an amount below the minimum or above the balance is
\* rejected and leaves the balance, total_withdrawn and the transactions as
\* they were; an accepted one takes the amount off the balance, adds it to
\* total_withdrawn and appends one transaction of minus the amount.
C32_WithdrawExact == [][WithdrawRejects /\ WithdrawApplies]_vars

\* A withdrawal of 10 was accepted and a second one of 10 was rejected for
\* the balance of 2 that is left.
C32_Witness ==
    /\ users[3].balance = 2
    /\ users[3].total_withdrawn = 10
    /\ outbox = <<3, {"insufficient"}>>

\* C33: for every user, the withdrawals accepted so far add up to no more
\* than the credits applied to the user so far.  (In SpecWithdraw no log
\* reaches 50 entries, so the log holds every transaction applied.)
C33_NoDoubleSpend ==
    \A u \in DOMAIN users :
        ~FLess(SumOfType(users[u].transactions, "credit"),
               FNeg(SumOfType(users[u].transactions, "withdrawal")))

\* C34: a step of a handler of one user neither removes, nor changes, nor
\* brings back the pending record of any other user.
C34_PendingWritesIsolated ==
    [][\A t \in TaskIds :
          tasks'[t] # tasks[t] =>
             \A y \in UserIds \ {tasks[t].uid} :
                /\ (y \in DOMAIN pending') = (y \in DOMAIN pending)
                /\ y \in DOMAIN pending => pending'[y] = pending[y]]_vars

\* C35: every user who has received the welcome bonus, and every user who is
\* the referred party of a completed referral, has has_joined_channels set.
C35_CreditAfterGateFlag ==
    /\ \A u \in DOMAIN users :
          users[u].welcome_bonus_received => users[u].has_joined_channels
    /\ \A x \in DOMAIN referrals :
          x \in DOMAIN users /\ users[x].has_joined_channels

\* C36: an update from a user who is not in ADMIN_IDS broadcasts nothing,
\* reloads nothing, saves no backup and shows no statistics.
C36_AdminOnly ==
    (outbox[1] # 0 /\ outbox[1] \notin AdminIds) =>
        outbox[2] \cap {"broadcast", "data_reloaded", "backup_done", "stats"} = {}

\* No two configured channels have the same chat_id.
NoDuplicateChannel ==
    \A i, j \in 1..Len(channels) :
        i # j => channels[i].chat_id # channels[j].chat_id

\* C37: the list built from the environment holds no chat_id twice, and no
\* step of a start, verify_join, withdraw or menu handler changes the list.
C37_ChannelsFixed == []NoDuplicateChannel /\ [][channels' = channels]_vars

\* Two channels are configured, the second the numbered one, and the last
\* handler has sent its answer.
C37_Witness ==
    /\ Len(channels) = 2
    /\ channels[1].chat_id = <<"@", "a">>
    /\ channels[2].name = <<"Channel ", "2">>
    /\ started = MaxInvocations
    /\ outbox # NoOutput

====
